---- MODULE Spec2Model ----
(***************************************************************************)
(* CopyTrader Cloud: the trade-state reconciliation engine of the web      *)
(* server (POST /api/master/push, GET /api/slave/trades/:code, the         *)
(* subscription handlers) and the per-tenant MT5 instance manager          *)
(* (launchInstance / stopInstance / healthCheck and the HTTP handlers      *)
(* that call them).                                                        *)
(***************************************************************************)
EXTENDS Integers, Sequences, FiniteSets, TLC

(***************************************************************************)
(* Bounds of the model.                                                    *)
(***************************************************************************)
MaxTicket == 2
MaxTrades == 2
MaxClosed == 1
Epoch     == 100
MaxClock  == 131
PushClock == 130
MaxTasks  == 2
MaxLaunch == 3
MaxAttempts == 1

\* The restarts of the agent the model follows leave at most this many
\* terminal processes behind.
MaxOrphans == 1

(***************************************************************************)
(* Program constants.                                                      *)
(***************************************************************************)
FreshWindow == 30

VARIABLES
  clock,      \* now(): seconds since the epoch
  channels,   \* table channels:      code -> [master_key, require_sub, last_active, owner_id]
  trades,     \* table trades:        set of rows, UNIQUE(channel, ticket)
  history,    \* table trade_history: set of rows, UNIQUE(channel, ticket)
  subs,       \* table subscriptions: set of rows, UNIQUE(channel, slave_id)
  last,       \* the HTTP exchange handled last: what the request said, what
              \* the handler found and what it answered
  firstClose, \* observer: stored channel -> ticket -> the profit of the first
              \* close report an authenticated push made for the ticket
              \* (-1: none yet)
  pushes      \* the push handlers between two of their awaits: handler ->
              \* [pc, req, ts, i], used where the statements of two pushes
              \* interleave

VARIABLES
  accounts,          \* table mt5_accounts: id -> status ("none": no row yet)
  runningInstances,  \* the registry Map: uid -> pid
  procs,             \* the terminal processes alive: [pid, uid]
  nextPid,           \* the pid the next spawned terminal gets
  xvfb,              \* the displays with an Xvfb server
  initialized,       \* the tenants whose Wine prefix has its marker file
  installed,         \* the tenants whose prefix has terminal64.exe
  tasks,             \* the handler invocations in flight and where they wait
  marks,             \* the accounts whose connect still has its status UPDATE pending
  launches,          \* launches requested so far
  health             \* the healthCheck round in flight

tradeVars == <<clock, channels, trades, history, subs, last, firstClose, pushes>>
mgrVars == <<accounts, runningInstances, procs, nextPid, xvfb, initialized,
             installed, tasks, marks, launches, health>>
VARIABLES
  thread,   \* the agent's poll loop (loop) and signal handler (sig): where each
            \* waits, the queue it walks, the account and pid it works on, and
            \* observers: the statuses reported in the launch attempt (sent),
            \* the commands run in the stop (did)
  exited,   \* process.exit(0) has been called
  failed    \* observer: accounts whose launch threw or whose process the
            \* health check found dead, with no user start since

agentVars == <<thread, exited, failed>>
VARIABLES
  agentSecret,    \* VPS_AGENT_SECRET of the running web server ("": not set)
  lastActive,     \* mt5_accounts.last_active: id -> seconds
  lastAgentPing,  \* let lastAgentPing of the web server process
  reply           \* the response of the agent API or of /api/system/status
                  \* handled last
coordVars == <<agentSecret, lastActive, lastAgentPing, reply>>
vars == <<tradeVars, mgrVars, agentVars, coordVars>>

(***************************************************************************)
(* Helpers.                                                                *)
(***************************************************************************)
Has(t, f) == f \in DOMAIN t

\* JavaScript  t.f || 0  on a numeric field: a missing field and 0 both give 0.
OrZero(t, f) == IF Has(t, f) THEN t[f] ELSE 0

\* String.prototype.toUpperCase on the channel codes of the model.
Upper(c) == CASE c = "abc" -> "ABC"
              [] c = "xyz" -> "XYZ"
              [] OTHER     -> c

Range(s) == {s[i] : i \in DOMAIN s}

SeqsUpTo(S, n) == UNION {[1..k -> S] : k \in 0..n}

(***************************************************************************)
(* POST /api/master/push: the statements of the handler, in order, as      *)
(* functions of the database  db = [channels, trades, history].            *)
(***************************************************************************)

\* A lookup by the code alone.
PushChannelAnyKey(chs, req) ==
  IF Has(req, "code") /\ Upper(req.code) \in DOMAIN chs
  THEN {Upper(req.code)} ELSE {}

\* SELECT * FROM channels WHERE code=? AND master_key=?   with
\* [code?.toUpperCase(), master_key]; an undefined parameter binds NULL.
PushChannel(chs, req) ==
  IF Has(req, "code") /\ Has(req, "master_key")
     /\ Upper(req.code) \in DOMAIN chs
     /\ chs[Upper(req.code)].master_key = req.master_key
  THEN {Upper(req.code)} ELSE {}

\* The NOT NULL columns of trade_history that the statement takes from the
\* closed entry; close_price falls back to open_price and close_time to ts.
HistoryNotNull(t) ==
  {"ticket", "symbol", "type", "lots", "open_price", "open_time"} \subseteq DOMAIN t

HistoryRow(code, t, ts) ==
  [channel     |-> code,
   ticket      |-> t.ticket,
   symbol      |-> t.symbol,
   type        |-> t.type,
   lots        |-> t.lots,
   open_price  |-> t.open_price,
   close_price |-> IF OrZero(t, "close_price") # 0 THEN t.close_price ELSE t.open_price,
   sl          |-> OrZero(t, "sl"),
   tp          |-> OrZero(t, "tp"),
   open_time   |-> t.open_time,
   close_time  |-> IF OrZero(t, "close_time") # 0 THEN t.close_time ELSE ts,
   profit      |-> OrZero(t, "profit"),
   pips        |-> OrZero(t, "pips")]

\* INSERT OR REPLACE: the row of a later close report takes the place of the
\* record.
InsertOrReplaceHistory(h, code, t, ts) ==
  IF ~HistoryNotNull(t) THEN h
  ELSE {r \in h : ~(r.channel = code /\ r.ticket = t.ticket)}
         \cup {HistoryRow(code, t, ts)}

\* INSERT OR IGNORE INTO trade_history: a row that violates NOT NULL or
\* UNIQUE(channel, ticket) is skipped without an error.
InsertOrIgnoreHistory(h, code, t, ts) ==
  IF ~HistoryNotNull(t) \/ (\E r \in h : r.channel = code /\ r.ticket = t.ticket)
  THEN h
  ELSE h \cup {HistoryRow(code, t, ts)}

\* DELETE FROM trades WHERE channel=? AND ticket=?
DeleteTrade(rows, code, ticket) ==
  {r \in rows : ~(r.channel = code /\ r.ticket = ticket)}

\* One iteration of  for (const t of closed).
ClosedStep(db, code, t, ts) ==
  [db EXCEPT !.history = InsertOrIgnoreHistory(db.history, code, t, ts),
             !.trades  = DeleteTrade(db.trades, code, t.ticket)]

RECURSIVE ClosedLoop(_, _, _, _)
ClosedLoop(db, code, closed, ts) ==
  IF closed = <<>> THEN db
  ELSE ClosedLoop(ClosedStep(db, code, Head(closed), ts), code, Tail(closed), ts)

\* DELETE FROM trades WHERE channel=? AND ticket NOT IN (...), or every row
\* of the channel when the snapshot is empty.
DiffDelete(rows, code, snapshot) ==
  LET tickets == {snapshot[i].ticket : i \in DOMAIN snapshot}
  IN  IF tickets # {}
      THEN {r \in rows : ~(r.channel = code /\ r.ticket \notin tickets)}
      ELSE {r \in rows : r.channel # code}

\* The NOT NULL columns of trades that the statement takes from the entry.
TradeNotNull(t) ==
  {"ticket", "symbol", "type", "lots", "open_price", "open_time"} \subseteq DOMAIN t

TradeRow(code, t, ts) ==
  [channel    |-> code,
   ticket     |-> t.ticket,
   symbol     |-> t.symbol,
   type       |-> t.type,
   lots       |-> t.lots,
   open_price |-> t.open_price,
   sl         |-> OrZero(t, "sl"),
   tp         |-> OrZero(t, "tp"),
   open_time  |-> t.open_time,
   profit     |-> OrZero(t, "profit"),
   updated_at |-> ts]

\* An upsert that adds the reported profit to the stored one.
UpsertTradeAddProfit(rows, code, t, ts) ==
  LET new == TradeRow(code, t, ts)
      hit == {r \in rows : r.channel = code /\ r.ticket = t.ticket}
  IN  IF hit = {}
      THEN rows \cup {new}
      ELSE (rows \ hit) \cup
           {[r EXCEPT !.lots = new.lots, !.sl = new.sl, !.tp = new.tp,
                      !.profit = r.profit + new.profit, !.updated_at = ts] : r \in hit}

\* INSERT INTO trades ... ON CONFLICT(channel,ticket) DO UPDATE SET lots, sl,
\* tp, profit, updated_at.  Defined for an entry that passes NOT NULL.
UpsertTrade(rows, code, t, ts) ==
  LET new == TradeRow(code, t, ts)
      hit == {r \in rows : r.channel = code /\ r.ticket = t.ticket}
  IN  IF hit = {}
      THEN rows \cup {new}
      ELSE (rows \ hit) \cup
           {[r EXCEPT !.lots = new.lots, !.sl = new.sl, !.tp = new.tp,
                      !.profit = new.profit, !.updated_at = ts] : r \in hit}

\* for (const t of trades): the loop ends at the first entry whose INSERT
\* fails (NOT NULL constraint), keeping the rows written before it.
RECURSIVE UpsertLoop(_, _, _, _)
UpsertLoop(rows, code, snapshot, ts) ==
  IF snapshot = <<>> THEN [rows |-> rows, ok |-> TRUE]
  ELSE IF ~TradeNotNull(Head(snapshot)) THEN [rows |-> rows, ok |-> FALSE]
  ELSE UpsertLoop(UpsertTrade(rows, code, Head(snapshot), ts), code, Tail(snapshot), ts)

\* UPDATE channels SET last_active=? WHERE code=?
TouchChannel(chs, code, ts) ==
  [c \in DOMAIN chs |->
     IF c = code THEN [chs[c] EXCEPT !.last_active = ts] ELSE chs[c]]

\* The upsert loop and what follows it: a failed INSERT ends the handler in
\* its catch block, with the earlier statements' effects in place.
PushUpserts(d2, code, up, ts) ==
  IF ~up.ok
  THEN [db |-> [d2 EXCEPT !.trades = up.rows],
        status |-> 500, error |-> "SQLITE_CONSTRAINT"]
  ELSE [db |-> [d2 EXCEPT !.trades = up.rows,
                          !.channels = TouchChannel(d2.channels, code, ts)],
        status |-> 200, error |-> ""]

\* The closed loop's result, then the diff delete and the upsert loop.
PushSnapshot(d1, code, snapshot, ts) ==
  PushUpserts([d1 EXCEPT !.trades = DiffDelete(d1.trades, code, snapshot)],
              code,
              UpsertLoop(DiffDelete(d1.trades, code, snapshot), code, snapshot, ts),
              ts)

\* The whole handler: the database it leaves and the response it sends.
\* The channel is looked up by the upper-cased code; every statement after
\* the lookup is given the code as the request spelled it.
PushResult(db, req, ts) ==
  IF PushChannel(db.channels, req) = {}
  THEN [db |-> db, status |-> 403, error |-> "Invalid credentials"]
  ELSE PushSnapshot(ClosedLoop(db, req.code, req.closed, ts), req.code, req.trades, ts)

(***************************************************************************)
(* The requests of the model.                                              *)
(***************************************************************************)
Tickets == 1..MaxTicket

\* Two well-formed versions of an open position and one without symbol.
TradeA(k) ==
  [ticket |-> k, symbol |-> "EURUSD", type |-> 0, lots |-> 1, open_price |-> 100,
   sl |-> 90, tp |-> 120, open_time |-> 30 - (10 * k), profit |-> 5]
TradeB(k) ==
  [ticket |-> k, symbol |-> "GBPUSD", type |-> 1, lots |-> 2, open_price |-> 200,
   open_time |-> 10]
TradeBad(k) ==
  [ticket |-> k, type |-> 0, lots |-> 1, open_price |-> 100, open_time |-> 10, profit |-> 5]

\* Two well-formed close reports (the second leaves close_price, close_time,
\* sl, tp and pips to the handler's defaults) and one without symbol.
ClosedP(k) ==
  [ticket |-> k, symbol |-> "EURUSD", type |-> 0, lots |-> 1, open_price |-> 100,
   close_price |-> 110, sl |-> 90, tp |-> 120, open_time |-> 30 - (10 * k),
   close_time |-> 60, profit |-> 42, pips |-> 10]
ClosedQ(k) ==
  [ticket |-> k, symbol |-> "EURUSD", type |-> 0, lots |-> 1, open_price |-> 100,
   open_time |-> 30 - (10 * k), profit |-> 7]
ClosedBad(k) ==
  [ticket |-> k, type |-> 0, lots |-> 1, open_price |-> 100, open_time |-> 10, profit |-> 42]

\* Ticket 1 comes in every version, the other tickets in one.
TradeEntries ==
  {TradeA(k) : k \in Tickets} \cup {TradeB(1), TradeBad(1)}
ClosedEntries ==
  {ClosedP(1), ClosedQ(1), ClosedBad(1)}

Payloads ==
  {[trades |-> tr, closed |-> cl] :
     tr \in SeqsUpTo(TradeEntries, MaxTrades), cl \in SeqsUpTo(ClosedEntries, MaxClosed)}

\* The payloads sent with a lower-case code.
LowerPayloads ==
  {[trades |-> <<TradeA(1)>>, closed |-> <<>>],
   [trades |-> <<>>, closed |-> <<ClosedP(1)>>]}

Request(code, key, p) ==
  [code |-> code, master_key |-> key, trades |-> p.trades, closed |-> p.closed]

\* Pushes with the stored code and key, with the code in lower case, with an
\* unknown code, with a wrong key, and with no code at all.
RejectedPayload == [trades |-> <<TradeA(2)>>, closed |-> <<ClosedP(1)>>]

PushRequests ==
  {Request("ABC", "K1", p) : p \in Payloads}
    \cup {Request("abc", "K1", p) : p \in LowerPayloads}
    \cup {Request("XYZ", "K1", RejectedPayload),
          Request("ABC", "K2", RejectedPayload),
          Request("abc", "K2", RejectedPayload),
          [master_key |-> "K1", trades |-> RejectedPayload.trades,
           closed |-> RejectedPayload.closed]}

(***************************************************************************)
(* Observations the claims are stated over.                                *)
(***************************************************************************)
TicketsOf(entries) == {entries[i].ticket : i \in DOMAIN entries}

OpenRows(rows, ch) == {r \in rows : r.channel = ch}

OpenTickets(rows, ch) == {r.ticket : r \in OpenRows(rows, ch)}

HistoryRows(h, ch, k) == {r \in h : r.channel = ch /\ r.ticket = k}

\* The first close report for ticket k in a list of close reports, as a set.
FirstReport(closed, k) ==
  LET hits == {i \in DOMAIN closed : closed[i].ticket = k}
  IN  IF hits = {} THEN {}
      ELSE {closed[CHOOSE i \in hits : \A j \in hits : i <= j]}

(***************************************************************************)
(* Initial state: the channel ABC exists (created by /api/mt5/connect for  *)
(* a master account, require_sub at its column default 1), nothing has     *)
(* been pushed, nobody has subscribed.                                     *)
(***************************************************************************)
Accounts == {1}

\* The account ids of the split deployment.
AccountIds == {1, 2}

(***************************************************************************)
(* The instance manager of the single-server deployment: mt5manager.js     *)
(* and the MT5 account routes of the server.  Every action is the code     *)
(* that runs between two awaits: the effect of the operation awaited and   *)
(* the statements up to the next await.                                    *)
(***************************************************************************)

\* function displayNum(userId) { return (parseInt(userId) % 200) + 100; }
displayNum(userId) == (userId % 200) + 100

Slots == 1..MaxTasks

Idle == [kind |-> "idle", uid |-> 0, pc |-> "idle", pid |-> 0]
Task(kind, uid, pc, pid) == [kind |-> kind, uid |-> uid, pc |-> pc, pid |-> pid]

\* The mt5_accounts row of the id exists.
RowExists(acc, uid) == acc[uid] \notin {"none", "deleted"}

\* The update applied only to an account waiting for the agent.
SetStatusIfPending(acc, uid, status) ==
  IF acc[uid] \in {"pending_vps", "starting"} THEN [acc EXCEPT ![uid] = status] ELSE acc

\* UPDATE mt5_accounts SET status=? WHERE id=?
SetStatus(acc, uid, status) ==
  IF RowExists(acc, uid) THEN [acc EXCEPT ![uid] = status] ELSE acc

\* runningInstances.delete(uid)
Unregister(reg, uid) == [u \in DOMAIN reg \ {uid} |-> reg[u]]

\* runningInstances.set(uid, { pid, ... })
Register(reg, uid, pid) == [u \in DOMAIN reg \cup {uid} |-> IF u = uid THEN pid ELSE reg[u]]

Pids(ps) == {p.pid : p \in ps}
ProcsOf(ps, uid) == {p \in ps : p.uid = uid}

\* What stopInstance does before its first await, for the caller of the
\* given kind: with no registry entry it returns at once and the caller
\* goes on with what it does after the stop.
AfterStop(kind, uid) ==
  IF kind = "launch" THEN Task("launch", uid, "relaunch", 0)
  ELSE Task(kind, uid, "db", 0)

stopInstance(reg, kind, uid) ==
  IF Has(reg, uid) THEN Task(kind, uid, "term", reg[uid])
  ELSE AfterStop(kind, uid)

\* A launch that goes to startXvfb whatever the registry holds.
launchInstanceNoStop(reg, uid) == Task("launch", uid, "xkill", 0)

\* launchInstance up to its first await: with a registry entry it awaits
\* stopInstance, without one it goes on to startXvfb.
launchInstanceBegin(reg, uid) ==
  IF Has(reg, uid) THEN Task("launch", uid, "term", reg[uid])
  ELSE Task("launch", uid, "xkill", 0)

HealthIdle == [pc |-> "idle", uid |-> 0, pid |-> 0, alive |-> TRUE]

StoredCodes == {"ABC"}

\* The agent process as it starts: pollLoop() is about to send its first
\* heartbeat, no signal has arrived.
AgentStarted ==
  [loop |-> [pc |-> "heartbeat", queue |-> <<>>, cur |-> 0, pid |-> 0,
             ret |-> "", sent |-> <<>>, did |-> <<>>],
   sig  |-> [pc |-> "off", queue |-> <<>>, cur |-> 0, pid |-> 0,
             ret |-> "", sent |-> <<>>, did |-> <<>>]]

\* The two requests the web server handles at a time where pushes interleave.
Handlers == {1, 2}

\* A handler that has no push request.
NoPush == [pc |-> "idle"]

\* The state after construction, with the mt5_accounts ids the model follows.
InitOver(ids) ==
  /\ clock = Epoch
  /\ channels = [c \in StoredCodes |->
                   [master_key |-> "K1", require_sub |-> 1, last_active |-> 0, owner_id |-> 1]]
  /\ trades = {}
  /\ history = {}
  /\ subs = {}
  /\ last = [op |-> "none"]
  /\ firstClose = [c \in StoredCodes |-> [k \in Tickets |-> -1]]
  /\ pushes = [h \in Handlers |-> NoPush]
  /\ accounts = [u \in ids |-> "none"]
  /\ runningInstances = [u \in {} |-> 0]
  /\ procs = {}
  /\ nextPid = 1
  /\ xvfb = {}
  /\ initialized = {}
  /\ installed = {}
  /\ tasks = [i \in Slots |-> Idle]
  /\ marks = {}
  /\ launches = 0
  /\ health = HealthIdle
  /\ thread = AgentStarted
  /\ exited = FALSE
  /\ failed = {}
  /\ agentSecret = "S1"
  /\ lastActive = [u \in ids |-> 0]
  /\ lastAgentPing = 0
  /\ reply = [route |-> "none", code |-> 0]

Init == InitOver(AccountIds)

Db == [channels |-> channels, trades |-> trades, history |-> history]

(***************************************************************************)
(* Actions.                                                                *)
(***************************************************************************)

\* Time passes.
Advances == {30, 31}

Tick(limit) ==
  /\ \E d \in Advances :
       /\ clock + d <= limit
       /\ clock' = clock + d
  /\ UNCHANGED <<channels, trades, history, subs, last, firstClose, pushes, mgrVars, agentVars, coordVars>>

\* The observer's record of the close reports of an authenticated push.
NoteCloses(fc, chs, req) ==
  [c \in DOMAIN fc |->
     [k \in DOMAIN fc[c] |->
        IF c \in chs /\ fc[c][k] = -1 /\ FirstReport(req.closed, k) # {}
        THEN OrZero(CHOOSE t \in FirstReport(req.closed, k) : TRUE, "profit")
        ELSE fc[c][k]]]

\* POST /api/master/push
Push(req) ==
  \E r \in {PushResult(Db, req, clock)} :
    \E ch \in {PushChannel(channels, req)} :
      /\ channels' = r.db.channels
      /\ trades'   = r.db.trades
      /\ history'  = r.db.history
      /\ firstClose' = NoteCloses(firstClose, ch, req)
      /\ last' = [op      |-> "push",
                  code    |-> IF Has(req, "code") THEN req.code ELSE "",
                  key     |-> IF Has(req, "master_key") THEN req.master_key ELSE "",
                  snap    |-> TicketsOf(req.trades),
                  closed  |-> TicketsOf(req.closed),
                  dropped |-> UNION {OpenTickets(trades, c) : c \in ch}
                                \ (TicketsOf(req.trades) \cup TicketsOf(req.closed)),
                  reclosed |-> {k \in TicketsOf(req.closed) :
                                 \E c \in ch : HistoryRows(history, c, k) # {}},
                  status  |-> r.status,
                  error   |-> r.error]
      /\ UNCHANGED <<clock, subs, pushes, mgrVars, agentVars, coordVars>>

PushNext == \E req \in PushRequests : Push(req)

(***************************************************************************)
(* GET /api/slave/trades/:code                                             *)
(***************************************************************************)
SubRows(ss, ch, sid) == {r \in ss : r.channel = ch /\ r.slave_id = sid}

\* const { slave_id = 'unknown', lot_mode = 'MIRROR' } = req.query
SlaveId(req) == IF Has(req, "slave_id") THEN req.slave_id ELSE "unknown"
LotMode(req) == IF Has(req, "lot_mode") THEN req.lot_mode ELSE "MIRROR"

\* A gate without the check for a missing subscription.
FetchGateNoRowPasses(ch, mine) ==
  IF ch.require_sub = 0 \/ mine = {} THEN ""
  ELSE IF \E r \in mine : r.status # "approved"
       THEN (CHOOSE r \in mine : r.status # "approved").status
       ELSE ""

\* The approval gate: the error it answers with, "" when it lets the fetch pass.
FetchGate(ch, mine) ==
  IF ch.require_sub = 0 THEN ""
  ELSE IF mine = {} THEN "not_subscribed"
  ELSE IF \E r \in mine : r.status # "approved"
       THEN (CHOOSE r \in mine : r.status # "approved").status
       ELSE ""

\* An upsert whose conflict branch also sets the status it would insert.
FetchUpsertApproves(ss, ch, sid, lot, ts) ==
  (ss \ SubRows(ss, ch, sid)) \cup
    {[channel |-> ch, slave_id |-> sid, name |-> "", status |-> "approved",
      lot_mode |-> lot, last_seen |-> ts, approved_at |-> 0]}

\* INSERT INTO subscriptions (channel,slave_id,lot_mode,status,last_seen)
\* VALUES (?,?,?,'approved',?) ON CONFLICT(channel,slave_id) DO UPDATE SET
\* last_seen, lot_mode.  The columns left out take their defaults (id and
\* requested_at, which no handler reads, are not part of the model).
FetchUpsert(ss, ch, sid, lot, ts) ==
  LET mine == SubRows(ss, ch, sid)
  IN  IF mine = {}
      THEN ss \cup {[channel |-> ch, slave_id |-> sid, name |-> "", status |-> "approved",
                     lot_mode |-> lot, last_seen |-> ts, approved_at |-> 0]}
      ELSE (ss \ mine) \cup {[r EXCEPT !.last_seen = ts, !.lot_mode = lot] : r \in mine}

\* SELECT * FROM trades WHERE channel=? ORDER BY open_time ASC: the orders the
\* statement may return the rows in (rows of equal open_time in any order).
Ascending(rows) ==
  {s \in [1..Cardinality(rows) -> rows] :
     /\ \A i, j \in DOMAIN s : i # j => s[i] # s[j]
     /\ \A i, j \in DOMAIN s : i < j => s[i].open_time <= s[j].open_time}

\* A staleness test that counts the 30th second as stale.
StaleFromWindow(ts, ch) == ts - ch.last_active >= FreshWindow

\* stale: ts - ch.last_active > 30
Stale(ts, ch) == ts - ch.last_active > FreshWindow

\* A handler that records the poll before it looks at the subscription.
FetchResultTouchFirst(chs, ss, req, ts) ==
  LET code == Upper(req.code)
  IN  IF code \notin DOMAIN chs
      THEN [subs |-> ss, status |-> 404, error |-> "Channel not found", stale |-> FALSE]
      ELSE IF FetchGate(chs[code], SubRows(ss, code, SlaveId(req))) # ""
      THEN [subs |-> FetchUpsert(ss, code, SlaveId(req), LotMode(req), ts),
            status |-> 403,
            error |-> FetchGate(chs[code], SubRows(ss, code, SlaveId(req))),
            stale |-> FALSE]
      ELSE [subs |-> FetchUpsert(ss, code, SlaveId(req), LotMode(req), ts),
            status |-> 200, error |-> "", stale |-> Stale(ts, chs[code])]

\* The handler up to the SELECT of the trades: the subscriptions it leaves
\* and the response without its trades.
FetchResult(chs, ss, req, ts) ==
  LET code == Upper(req.code)
  IN  IF code \notin DOMAIN chs
      THEN [subs |-> ss, status |-> 404, error |-> "Channel not found", stale |-> FALSE]
      ELSE IF FetchGate(chs[code], SubRows(ss, code, SlaveId(req))) # ""
      THEN [subs |-> ss, status |-> 403,
            error |-> FetchGate(chs[code], SubRows(ss, code, SlaveId(req))),
            stale |-> FALSE]
      ELSE [subs |-> FetchUpsert(ss, code, SlaveId(req), LotMode(req), ts),
            status |-> 200, error |-> "", stale |-> Stale(ts, chs[code])]

\* What the subscriber's row said before the request ("none": no row).
SubState(ss, ch, sid) ==
  IF SubRows(ss, ch, sid) = {} THEN "none"
  ELSE (CHOOSE r \in SubRows(ss, ch, sid) : TRUE).status

Fetch(req) ==
  \E r \in {FetchResult(channels, subs, req, clock)} :
    \E order \in (IF r.status = 200 THEN Ascending(OpenRows(trades, Upper(req.code)))
                   ELSE {<<>>}) :
      /\ subs' = r.subs
      /\ last' = [op          |-> "fetch",
                  channel     |-> Upper(req.code),
                  slave_id    |-> SlaveId(req),
                  ts          |-> clock,
                  require_sub |-> IF Upper(req.code) \in DOMAIN channels
                                  THEN channels[Upper(req.code)].require_sub ELSE 0,
                  sub         |-> SubState(subs, Upper(req.code), SlaveId(req)),
                  status      |-> r.status,
                  error       |-> r.error,
                  stale       |-> r.stale,
                  trades      |-> order]
      /\ UNCHANGED <<clock, channels, trades, history, firstClose, pushes, mgrVars, agentVars, coordVars>>

(***************************************************************************)
(* POST /api/subscribe                                                     *)
(***************************************************************************)

\* An upsert that also overwrites the status of an existing row.
SubscribeUpsertResets(ss, code, sid, lot, status, ts) ==
  (ss \ SubRows(ss, code, sid)) \cup
    {[channel |-> code, slave_id |-> sid, name |-> "", status |-> status,
      lot_mode |-> lot, last_seen |-> ts, approved_at |-> 0]}

\* INSERT INTO subscriptions (channel,slave_id,name,lot_mode,status,last_seen)
\* ... ON CONFLICT(channel,slave_id) DO UPDATE SET name, lot_mode, last_seen.
SubscribeUpsert(ss, code, sid, lot, status, ts) ==
  LET mine == SubRows(ss, code, sid)
  IN  IF mine = {}
      THEN ss \cup {[channel |-> code, slave_id |-> sid, name |-> "", status |-> status,
                     lot_mode |-> lot, last_seen |-> ts, approved_at |-> 0]}
      ELSE (ss \ mine) \cup
           {[r EXCEPT !.name = "", !.lot_mode = lot, !.last_seen = ts] : r \in mine}

\* The channel is looked up by the upper-cased code; the row is written and
\* read back under the code as the request spelled it.  A request without
\* slave_id fails the NOT NULL constraint of the INSERT.
SubscribeResult(chs, ss, req, ts) ==
  IF ~Has(req, "code") \/ Upper(req.code) \notin DOMAIN chs
  THEN [subs |-> ss, status |-> 404, error |-> "Channel not found", answer |-> ""]
  ELSE IF ~Has(req, "slave_id")
  THEN [subs |-> ss, status |-> 500, error |-> "SQLITE_CONSTRAINT", answer |-> ""]
  ELSE [subs |-> SubscribeUpsert(ss, req.code, req.slave_id, LotMode(req),
                                 IF chs[Upper(req.code)].require_sub # 0
                                 THEN "pending" ELSE "approved", ts),
        status |-> 200, error |-> "",
        answer |-> SubState(SubscribeUpsert(ss, req.code, req.slave_id, LotMode(req),
                                 IF chs[Upper(req.code)].require_sub # 0
                                 THEN "pending" ELSE "approved", ts),
                            req.code, req.slave_id)]

Subscribe(req) ==
  \E r \in {SubscribeResult(channels, subs, req, clock)} :
    /\ subs' = r.subs
    /\ last' = [op |-> "subscribe",
                code |-> IF Has(req, "code") THEN req.code ELSE "",
                slave_id |-> IF Has(req, "slave_id") THEN req.slave_id ELSE "",
                status |-> r.status, error |-> r.error, answer |-> r.answer]
    /\ UNCHANGED <<clock, channels, trades, history, firstClose, pushes, mgrVars, agentVars, coordVars>>

(***************************************************************************)
(* PATCH /api/subscriptions/:id   (the row's id is its key in the model)   *)
(***************************************************************************)
PatchActions == {"approve", "reject", "revoke"}

\* SELECT s.*, c.owner_id FROM subscriptions s JOIN channels c ON
\* c.code = s.channel WHERE s.id = ?
PatchTarget(chs, ss, id) ==
  {r \in SubRows(ss, id.channel, id.slave_id) : r.channel \in DOMAIN chs}

PatchResult(chs, ss, id, action, user, ts) ==
  IF action \notin PatchActions
  THEN [subs |-> ss, status |-> 400, error |-> "Invalid action"]
  ELSE IF \A r \in PatchTarget(chs, ss, id) : chs[r.channel].owner_id # user
  THEN [subs |-> ss, status |-> 403, error |-> "Not authorised"]
  ELSE [subs |-> (ss \ PatchTarget(chs, ss, id)) \cup
                 {[r EXCEPT !.status = CASE action = "approve" -> "approved"
                                         [] action = "reject"  -> "rejected"
                                         [] OTHER              -> "revoked",
                            !.approved_at = IF action = "approve" THEN ts ELSE 0]
                    : r \in PatchTarget(chs, ss, id)},
        status |-> 200, error |-> ""]

Patch(id, action, user) ==
  \E r \in {PatchResult(channels, subs, id, action, user, clock)} :
    /\ subs' = r.subs
    /\ last' = [op |-> "patch", id |-> id, action |-> action, user |-> user,
                status |-> r.status, error |-> r.error]
    /\ UNCHANGED <<clock, channels, trades, history, firstClose, pushes, mgrVars, agentVars, coordVars>>

(***************************************************************************)
(* PATCH /api/channels/:code/settings   (name and description are not      *)
(* part of the model)                                                      *)
(***************************************************************************)
SettingsResult(chs, code, user, flag) ==
  IF Upper(code) \notin DOMAIN chs \/ chs[Upper(code)].owner_id # user
  THEN [channels |-> chs, status |-> 403, error |-> "Not authorised"]
  ELSE [channels |-> [chs EXCEPT ![Upper(code)].require_sub = IF flag THEN 1 ELSE 0],
        status |-> 200, error |-> ""]

Settings(code, user, flag) ==
  \E r \in {SettingsResult(channels, code, user, flag)} :
    /\ channels' = r.channels
    /\ last' = [op |-> "settings", code |-> code, user |-> user,
                status |-> r.status, error |-> r.error]
    /\ UNCHANGED <<clock, trades, history, subs, firstClose, pushes, mgrVars, agentVars, coordVars>>

(***************************************************************************)
(* The requests of the subscription side.                                  *)
(***************************************************************************)
Owner    == 1
Stranger == 2

FetchRequests ==
  {[code |-> c, slave_id |-> "s1"] : c \in {"ABC", "abc", "XYZ"}}
    \cup {[code |-> "ABC", slave_id |-> "s1", lot_mode |-> "FIXED"],
          [code |-> "ABC"]}

SubscribeRequests ==
  {[code |-> c, slave_id |-> "s1"] : c \in {"ABC", "abc", "XYZ"}}
    \cup {[code |-> "ABC"]}

SubId(c, sid) == [channel |-> c, slave_id |-> sid]

\* The owner's decisions on the rows of s1, a stranger's attempt, an
\* invalid action.
PatchRequests ==
  {<<SubId(c, "s1"), a, Owner>> : c \in {"ABC", "abc"}, a \in PatchActions}
    \cup {<<SubId("ABC", "s1"), "approve", Stranger>>,
          <<SubId("ABC", "s1"), "delete", Owner>>}

SettingsRequests ==
  {<<"ABC", Owner, TRUE>>, <<"ABC", Owner, FALSE>>, <<"ABC", Stranger, FALSE>>}

\* The snapshots the master publishes while the subscription side is explored.
FetchPushes ==
  {Request("ABC", "K1", [trades |-> tr, closed |-> <<>>]) :
     tr \in {<<>>, <<TradeA(1), TradeA(2)>>, <<TradeB(1), TradeA(2)>>}}

FetchNext ==
  \/ \E req \in FetchRequests : Fetch(req)
  \/ \E req \in SubscribeRequests : Subscribe(req)
  \/ \E q \in PatchRequests : Patch(q[1], q[2], q[3])
  \/ \E q \in SettingsRequests : Settings(q[1], q[2], q[3])
  \/ \E req \in FetchPushes : Push(req)
  \/ Tick(MaxClock)

SpecFetch == Init /\ [][FetchNext]_vars

PushSideNext == PushNext \/ Tick(PushClock)

SpecPush == Init /\ [][PushSideNext]_vars

(***************************************************************************)
(* Properties of the reconciliation engine.                                *)
(***************************************************************************)

\* The stored channel a push was authenticated for.
PushedChannel == Upper(last.code)

\* A trades row without the column the handler stamps with the time of the push.
Content(r) ==
  [channel |-> r.channel, ticket |-> r.ticket, symbol |-> r.symbol, type |-> r.type,
   lots |-> r.lots, open_price |-> r.open_price, sl |-> r.sl, tp |-> r.tp,
   open_time |-> r.open_time, profit |-> r.profit]

\* C2: after a push to a channel has completed, the tickets of the channel's
\* open set are exactly the tickets of the push's open snapshot.
C2_OpenSetIsSnapshot ==
  (last.op = "push" /\ last.status = 200)
    => OpenTickets(trades, PushedChannel) = last.snap

\* The same for a push that spells the code as the channel stores it.
OpenSetIsSnapshotExactCode ==
  (last.op = "push" /\ last.status = 200 /\ last.code \in DOMAIN channels)
    => OpenTickets(trades, last.code) = last.snap

\* Submitting req again at time ts2, after it was handled with the result
\* first, leaves the open set (without updated_at) and the history as the
\* first submission left them.
SecondLeaves(first, req, ts2) ==
  first.status = 200
    => \E second \in {PushResult(first.db, req, ts2)} :
         /\ second.status = 200
         /\ {Content(r) : r \in second.db.trades} = {Content(r) : r \in first.db.trades}
         /\ second.db.history = first.db.history

\* C3: push is idempotent: for every reachable channel state and every
\* accepted payload, submitting the same payload twice in succession leaves
\* the open set and the closed history as they were after the first
\* submission.
C3_PushIdempotent ==
  \A req \in PushRequests :
    SecondLeaves(PushResult(Db, req, clock), req, clock + 1)

\* A state a resubmission has produced: the push handled last was accepted,
\* closed a ticket whose record existed already and kept a ticket open.
C3_Witness ==
  /\ last.op = "push" /\ last.status = 200
  /\ last.reclosed # {} /\ last.snap # {}
  /\ \E req \in PushRequests :
       /\ TicketsOf(req.trades) = last.snap /\ TicketsOf(req.closed) = last.closed
       /\ Has(req, "code") /\ req.code = last.code
       /\ PushResult(Db, req, clock).db = Db

HistoryUnique(h) ==
  \A r1, r2 \in h : (r1.channel = r2.channel /\ r1.ticket = r2.ticket) => r1 = r2

\* C4: history insertion is insert-if-absent: the history never holds two
\* records for one (channel, ticket), and no step changes or removes a record
\* that exists (a repeated close report leaves the record as it was).
C4_HistoryInsertIfAbsent ==
  [][HistoryUnique(history') /\ history \subseteq history']_vars

\* A close report for a ticket that already had a record has been handled.
C4_Witness ==
  /\ last.op = "push" /\ last.status = 200
  /\ last.reclosed # {}
  /\ \E r \in history : r.channel = "ABC" /\ r.ticket \in last.reclosed /\ r.profit = 7

\* C5: after a push whose closed list reports ticket t and whose snapshot
\* omits t, t is not in the channel's open set, a fetch returns no trade with
\* ticket t, and the history holds exactly one record for t, with the profit
\* of the first close report for t.
C5_ClosedTicketSettled ==
  (last.op = "push" /\ last.status = 200)
    => \A t \in last.closed \ last.snap :
         /\ t \notin OpenTickets(trades, PushedChannel)
         /\ \A order \in Ascending(OpenRows(trades, PushedChannel)) :
              \A i \in DOMAIN order : order[i].ticket # t
         /\ \E r \in history :
              /\ HistoryRows(history, PushedChannel, t) = {r}
              /\ r.profit = firstClose[PushedChannel][t]

\* C9: a push that ends in an error leaves the open set, the closed history
\* and the channel's last-active timestamp exactly as they were before it.
C9_FailedPushChangesNothing ==
  [][(last'.op = "push" /\ clock' = clock /\ last'.status = 500)
       => UNCHANGED <<trades, history, channels>>]_vars

\* The (code, master key) pair of a push matches a channel: the code is the
\* channel's code, letter case aside, and the key is the channel's key.
CredentialsMatch(chs, code, key) ==
  \E c \in DOMAIN chs : Upper(code) = c /\ chs[c].master_key = key

\* C10: a push is applied only when its (code, master key) pair matches an
\* existing channel; any other push is answered 403 'Invalid credentials'
\* and changes no open trade, no history record and no channel timestamp.
C10_PushNeedsCredentials ==
  [][(last'.op = "push" /\ clock' = clock
        /\ ~CredentialsMatch(channels, last'.code, last'.key))
       => /\ last'.status = 403
          /\ last'.error = "Invalid credentials"
          /\ UNCHANGED <<trades, history, channels>>]_vars

\* A push with the channel's code and a wrong key has been rejected while
\* the channel had open trades and history.
C10_Witness ==
  /\ last.op = "push" /\ last.code = "ABC" /\ last.key = "K2"
  /\ last.status = 403
  /\ OpenRows(trades, "ABC") # {} /\ history # {}

(***************************************************************************)
(* Properties of the subscriber's fetch.                                   *)
(***************************************************************************)

\* The sequence lists every row of the set once, by ascending open_time.
CompleteAscending(order, rows) ==
  /\ Range(order) = rows
  /\ Len(order) = Cardinality(rows)
  /\ \A i, j \in DOMAIN order : i < j => order[i].open_time <= order[j].open_time

\* C6: on a channel that requires approval a fetch by a subscriber with no
\* subscription is rejected with reason "not_subscribed", and a fetch by a
\* subscriber whose subscription is approved succeeds and returns the
\* channel's complete open set ordered by open time ascending.
C6_FetchGating ==
  (last.op = "fetch" /\ last.channel \in DOMAIN channels /\ last.require_sub = 1)
    => /\ last.sub = "none"
            => (last.status = 403 /\ last.error = "not_subscribed" /\ last.trades = <<>>)
       /\ last.sub = "approved"
            => (last.status = 200
                /\ CompleteAscending(last.trades, OpenRows(trades, last.channel)))

\* A subscriber the owner approved has fetched a channel with two open
\* trades, the later ticket opened first.
C6_Witness ==
  /\ last.op = "fetch" /\ last.require_sub = 1 /\ last.sub = "approved"
  /\ last.status = 200
  /\ \E r \in SubRows(subs, last.channel, last.slave_id) : r.approved_at # 0
  /\ Len(last.trades) = 2
  /\ last.trades[1].ticket = 2 /\ last.trades[2].ticket = 1
  /\ last.trades[1].open_time < last.trades[2].open_time

Refused == {"pending", "rejected", "revoked"}

\* C7: a fetch by a subscriber whose subscription is pending, rejected or
\* revoked is rejected with that state as the reason, returns no trades and
\* leaves every subscription, trade, history record and channel as it was.
C7_RefusedFetch ==
  [][(/\ last'.op = "fetch" /\ clock' = clock
      /\ last'.channel \in DOMAIN channels
      /\ channels[last'.channel].require_sub # 0
      /\ SubState(subs, last'.channel, last'.slave_id) \in Refused)
       => /\ last'.status = 403
          /\ last'.error = SubState(subs, last'.channel, last'.slave_id)
          /\ last'.trades = <<>>
          /\ UNCHANGED <<subs, trades, history, channels>>]_vars

\* A revoked subscriber has been refused while the channel had open trades.
C7_Witness ==
  /\ last.op = "fetch" /\ last.sub = "revoked"
  /\ last.status = 403 /\ last.error = "revoked"
  /\ OpenRows(trades, last.channel) # {}

\* C8: a successful fetch reports stale = true exactly when the time of the
\* fetch minus the channel's last-active timestamp is more than 30 seconds,
\* whether or not the open set is empty; a channel that never published
\* (last-active 0) is reported stale.
C8_StaleExactly ==
  (last.op = "fetch" /\ last.status = 200)
    => /\ last.stale <=> (last.ts - channels[last.channel].last_active > 30)
       /\ channels[last.channel].last_active = 0 => last.stale

\* A fetch 30 seconds after the last push has reported a channel with open
\* trades as not stale.
C8_Witness ==
  /\ last.op = "fetch" /\ last.status = 200
  /\ last.ts - channels[last.channel].last_active = 30
  /\ ~last.stale
  /\ last.trades # <<>>

\* A fetch 31 seconds after the last push has reported the channel stale.
StaleAfterWindow ==
  /\ last.op = "fetch" /\ last.status = 200
  /\ last.ts - channels[last.channel].last_active = 31
  /\ last.stale

(***************************************************************************)
(* HTTP handlers                                                           *)
(***************************************************************************)

\* POST /api/mt5/connect: INSERT the account (status defaults to 'stopped'),
\* call launchInstance without awaiting it, then UPDATE status='starting'.
\* A new id has no registry entry.  The UPDATE is the task's pending mark.
ConnectReq(i, uid) ==
  /\ tasks[i] = Idle
  /\ launches < MaxLaunch
  /\ accounts[uid] = "none"
  /\ accounts' = [accounts EXCEPT ![uid] = "stopped"]
  /\ tasks' = [tasks EXCEPT ![i] = launchInstanceBegin(runningInstances, uid)]
  /\ marks' = marks \cup {uid}
  /\ launches' = launches + 1
  /\ UNCHANGED <<runningInstances, procs, nextPid, xvfb, initialized, installed, health, tradeVars, agentVars, coordVars>>

\* await dbRun(`UPDATE mt5_accounts SET status='starting' WHERE id=?`) of connect
ConnectMark(uid) ==
  /\ uid \in marks
  /\ marks' = marks \ {uid}
  /\ accounts' = SetStatus(accounts, uid, "starting")
  /\ UNCHANGED <<runningInstances, procs, nextPid, xvfb, initialized, installed, tasks, launches, health, tradeVars, agentVars, coordVars>>

\* POST /api/mt5/accounts/:id/start, up to the UPDATE it awaits
StartReq(i, uid) ==
  /\ tasks[i] = Idle
  /\ launches < MaxLaunch
  /\ RowExists(accounts, uid)
  /\ tasks' = [tasks EXCEPT ![i] = Task("start", uid, "db", 0)]
  /\ launches' = launches + 1
  /\ UNCHANGED <<accounts, runningInstances, procs, nextPid, xvfb, initialized, installed, marks, health, tradeVars, agentVars, coordVars>>

\* ... status='starting' is written and launchInstance is called, not awaited
StartLaunch(i) ==
  /\ tasks[i].kind = "start" /\ tasks[i].pc = "db"
  /\ accounts' = SetStatus(accounts, tasks[i].uid, "starting")
  /\ tasks' = [tasks EXCEPT ![i] = launchInstanceBegin(runningInstances, tasks[i].uid)]
  /\ UNCHANGED <<runningInstances, procs, nextPid, xvfb, initialized, installed, marks, launches, health, tradeVars, agentVars, coordVars>>

\* POST /api/mt5/accounts/:id/stop and DELETE /api/mt5/accounts/:id, up to
\* the first await of stopInstance
StopReq(i, uid) ==
  /\ tasks[i] = Idle
  /\ RowExists(accounts, uid)
  /\ tasks' = [tasks EXCEPT ![i] = stopInstance(runningInstances, "stop", uid)]
  /\ UNCHANGED <<accounts, runningInstances, procs, nextPid, xvfb, initialized, installed, marks, launches, health, tradeVars, agentVars, coordVars>>

DeleteReq(i, uid) ==
  /\ tasks[i] = Idle
  /\ RowExists(accounts, uid)
  /\ tasks' = [tasks EXCEPT ![i] = stopInstance(runningInstances, "delete", uid)]
  /\ UNCHANGED <<accounts, runningInstances, procs, nextPid, xvfb, initialized, installed, marks, launches, health, tradeVars, agentVars, coordVars>>

\* UPDATE mt5_accounts SET status='stopped' / DELETE FROM mt5_accounts
StopDone(i) ==
  /\ tasks[i].kind = "stop" /\ tasks[i].pc = "db"
  /\ accounts' = SetStatus(accounts, tasks[i].uid, "stopped")
  /\ tasks' = [tasks EXCEPT ![i] = Idle]
  /\ UNCHANGED <<runningInstances, procs, nextPid, xvfb, initialized, installed, marks, launches, health, tradeVars, agentVars, coordVars>>

DeleteDone(i) ==
  /\ tasks[i].kind = "delete" /\ tasks[i].pc = "db"
  /\ accounts' = SetStatus(accounts, tasks[i].uid, "deleted")
  /\ tasks' = [tasks EXCEPT ![i] = Idle]
  /\ UNCHANGED <<runningInstances, procs, nextPid, xvfb, initialized, installed, marks, launches, health, tradeVars, agentVars, coordVars>>

(***************************************************************************)
(* stopInstance, awaited by launchInstance, stop and delete                *)
(***************************************************************************)

\* kill -TERM inst.pid: fails when the process is gone (the catch skips to
\* wineserver -k); a live process ends on the signal or is still there two
\* seconds later.
StopTerm(i) ==
  /\ tasks[i].pc = "term"
  /\ IF tasks[i].pid \in Pids(procs)
     THEN /\ tasks' = [tasks EXCEPT ![i].pc = "kill9"]
          /\ \/ procs' = {p \in procs : p.pid # tasks[i].pid}
             \/ procs' = procs
     ELSE /\ tasks' = [tasks EXCEPT ![i].pc = "wineserver"]
          /\ procs' = procs
  /\ UNCHANGED <<accounts, runningInstances, nextPid, xvfb, initialized, installed, marks, launches, health, tradeVars, agentVars, coordVars>>

\* kill -9 inst.pid
StopKill(i) ==
  /\ tasks[i].pc = "kill9"
  /\ procs' = {p \in procs : p.pid # tasks[i].pid}
  /\ tasks' = [tasks EXCEPT ![i].pc = "wineserver"]
  /\ UNCHANGED <<accounts, runningInstances, nextPid, xvfb, initialized, installed, marks, launches, health, tradeVars, agentVars, coordVars>>

\* wineserver -k with the tenant's WINEPREFIX: every process of the prefix
StopWineserver(i) ==
  /\ tasks[i].pc = "wineserver"
  /\ procs' = procs \ ProcsOf(procs, tasks[i].uid)
  /\ tasks' = [tasks EXCEPT ![i].pc = "xvfb"]
  /\ UNCHANGED <<accounts, runningInstances, nextPid, xvfb, initialized, installed, marks, launches, health, tradeVars, agentVars, coordVars>>

\* pkill -f "Xvfb :N", then runningInstances.delete(uid) and the return to
\* the caller
StopXvfb(i) ==
  /\ tasks[i].pc = "xvfb"
  /\ xvfb' = xvfb \ {displayNum(tasks[i].uid)}
  /\ runningInstances' = Unregister(runningInstances, tasks[i].uid)
  /\ tasks' = [tasks EXCEPT ![i] = AfterStop(tasks[i].kind, tasks[i].uid)]
  /\ UNCHANGED <<accounts, procs, nextPid, initialized, installed, marks, launches, health, tradeVars, agentVars, coordVars>>

(***************************************************************************)
(* launchInstance                                                          *)
(***************************************************************************)

\* await sleep(2000) after the stop of the existing instance; startXvfb then
\* issues its pkill
LaunchResume(i) ==
  /\ tasks[i].kind = "launch" /\ tasks[i].pc = "relaunch"
  /\ tasks' = [tasks EXCEPT ![i].pc = "xkill"]
  /\ UNCHANGED <<accounts, runningInstances, procs, nextPid, xvfb, initialized, installed, marks, launches, health, tradeVars, agentVars, coordVars>>

\* startXvfb: pkill -f "Xvfb :N"
XvfbKill(i) ==
  /\ tasks[i].pc = "xkill"
  /\ xvfb' = xvfb \ {displayNum(tasks[i].uid)}
  /\ tasks' = [tasks EXCEPT ![i].pc = "xspawn"]
  /\ UNCHANGED <<accounts, runningInstances, procs, nextPid, initialized, installed, marks, launches, health, tradeVars, agentVars, coordVars>>

\* startXvfb: after sleep(500), spawn('Xvfb', [':N', ...])
XvfbSpawn(i) ==
  /\ tasks[i].pc = "xspawn"
  /\ xvfb' = xvfb \cup {displayNum(tasks[i].uid)}
  /\ tasks' = [tasks EXCEPT ![i].pc = "prefix"]
  /\ UNCHANGED <<accounts, runningInstances, procs, nextPid, initialized, installed, marks, launches, health, tradeVars, agentVars, coordVars>>

\* startMT5Process: spawn('wine', [terminal64.exe, '/portable']), then
\* sleep(5000).  writeMT5Config and deployEA before it only write files.
Spawned(i) == [tasks EXCEPT ![i].pc = "settle", ![i].pid = nextPid]

\* After the 1500 ms of startXvfb: initWinePrefix returns when the marker
\* exists, ensureMT5Installed when terminal64.exe exists.
LaunchPrefix(i) ==
  /\ tasks[i].pc = "prefix"
  /\ IF tasks[i].uid \notin initialized
     THEN /\ tasks' = [tasks EXCEPT ![i].pc = "wineboot"]
          /\ UNCHANGED <<procs, nextPid>>
     ELSE IF tasks[i].uid \notin installed
     THEN /\ tasks' = [tasks EXCEPT ![i].pc = "install"]
          /\ UNCHANGED <<procs, nextPid>>
     ELSE /\ tasks' = Spawned(i)
          /\ procs' = procs \cup {[pid |-> nextPid, uid |-> tasks[i].uid]}
          /\ nextPid' = nextPid + 1
  /\ UNCHANGED <<accounts, runningInstances, xvfb, initialized, installed, marks, launches, health, tradeVars, agentVars, coordVars>>

\* execP('wineboot --init', { timeout: 30000 }): on failure launchInstance
\* rejects
Wineboot(i) ==
  /\ tasks[i].pc = "wineboot"
  /\ \/ tasks' = [tasks EXCEPT ![i].pc = "winetricks"]
     \/ tasks' = [tasks EXCEPT ![i].pc = "failed"]
  /\ UNCHANGED <<accounts, runningInstances, procs, nextPid, xvfb, initialized, installed, marks, launches, health, tradeVars, agentVars, coordVars>>

\* winetricks (its failure is caught), the marker is written
Winetricks(i) ==
  /\ tasks[i].pc = "winetricks"
  /\ initialized' = initialized \cup {tasks[i].uid}
  /\ IF tasks[i].uid \notin installed
     THEN /\ tasks' = [tasks EXCEPT ![i].pc = "install"]
          /\ UNCHANGED <<procs, nextPid>>
     ELSE /\ tasks' = Spawned(i)
          /\ procs' = procs \cup {[pid |-> nextPid, uid |-> tasks[i].uid]}
          /\ nextPid' = nextPid + 1
  /\ UNCHANGED <<accounts, runningInstances, xvfb, installed, marks, launches, health, tradeVars, agentVars, coordVars>>

\* execP(`wine "mt5setup.exe" /auto`, { timeout: 120000 })
Install(i) ==
  /\ tasks[i].pc = "install"
  /\ \/ /\ installed' = installed \cup {tasks[i].uid}
        /\ tasks' = Spawned(i)
        /\ procs' = procs \cup {[pid |-> nextPid, uid |-> tasks[i].uid]}
        /\ nextPid' = nextPid + 1
     \/ /\ tasks' = [tasks EXCEPT ![i].pc = "failed"]
        /\ UNCHANGED <<installed, procs, nextPid>>
  /\ UNCHANGED <<accounts, runningInstances, xvfb, initialized, marks, launches, health, tradeVars, agentVars, coordVars>>

\* After sleep(5000): runningInstances.set(uid, { pid: proc.pid, ... })
LaunchRegister(i) ==
  /\ tasks[i].pc = "settle"
  /\ runningInstances' = Register(runningInstances, tasks[i].uid, tasks[i].pid)
  /\ tasks' = [tasks EXCEPT ![i].pc = "then"]
  /\ UNCHANGED <<accounts, procs, nextPid, xvfb, initialized, installed, marks, launches, health, tradeVars, agentVars, coordVars>>

\* .then(() => dbRun(`UPDATE mt5_accounts SET status='running' ...`))
LaunchThen(i) ==
  /\ tasks[i].pc = "then"
  /\ accounts' = SetStatus(accounts, tasks[i].uid, "running")
  /\ tasks' = [tasks EXCEPT ![i] = Idle]
  /\ UNCHANGED <<runningInstances, procs, nextPid, xvfb, initialized, installed, marks, launches, health, tradeVars, agentVars, coordVars>>

\* .catch(... dbRun(`UPDATE mt5_accounts SET status='error' ...`))
LaunchCatch(i) ==
  /\ tasks[i].pc = "failed"
  /\ accounts' = SetStatus(accounts, tasks[i].uid, "error")
  /\ tasks' = [tasks EXCEPT ![i] = Idle]
  /\ UNCHANGED <<runningInstances, procs, nextPid, xvfb, initialized, installed, marks, launches, health, tradeVars, agentVars, coordVars>>

(***************************************************************************)
(* healthCheck (setInterval, 30 s) and the terminal processes              *)
(***************************************************************************)
\* for (const [uid, inst] of runningInstances.entries()): kill -0 inst.pid
\* is issued for an entry
HealthStart(uid) ==
  /\ health.pc = "idle"
  /\ Has(runningInstances, uid)
  /\ health' = [pc |-> "probe", uid |-> uid, pid |-> runningInstances[uid], alive |-> TRUE]
  /\ UNCHANGED <<accounts, runningInstances, procs, nextPid, xvfb, initialized, installed, tasks, marks, launches, tradeVars, agentVars, coordVars>>

\* kill -0 runs
HealthProbe ==
  /\ health.pc = "probe"
  /\ health' = [health EXCEPT !.pc = "probed", !.alive = (health.pid \in Pids(procs))]
  /\ UNCHANGED <<accounts, runningInstances, procs, nextPid, xvfb, initialized, installed, tasks, marks, launches, tradeVars, agentVars, coordVars>>

\* its result arrives: catch { runningInstances.delete(uid) }
HealthDone ==
  /\ health.pc = "probed"
  /\ runningInstances' = IF health.alive THEN runningInstances
                         ELSE Unregister(runningInstances, health.uid)
  /\ health' = HealthIdle
  /\ UNCHANGED <<accounts, procs, nextPid, xvfb, initialized, installed, tasks, marks, launches, tradeVars, agentVars, coordVars>>

\* A terminal process ends on its own.
ProcExit(p) ==
  /\ p \in procs
  /\ procs' = procs \ {p}
  /\ UNCHANGED <<accounts, runningInstances, nextPid, xvfb, initialized, installed, tasks, marks, launches, health, tradeVars, agentVars, coordVars>>

MgrNext ==
  \/ \E i \in Slots, uid \in Accounts : ConnectReq(i, uid)
  \/ \E uid \in Accounts : ConnectMark(uid)
  \/ \E i \in Slots, uid \in Accounts : StartReq(i, uid)
  \/ \E i \in Slots : StartLaunch(i)
  \/ \E i \in Slots, uid \in Accounts : StopReq(i, uid)
  \/ \E i \in Slots, uid \in Accounts : DeleteReq(i, uid)
  \/ \E i \in Slots : StopDone(i)
  \/ \E i \in Slots : DeleteDone(i)
  \/ \E i \in Slots : StopTerm(i)
  \/ \E i \in Slots : StopKill(i)
  \/ \E i \in Slots : StopWineserver(i)
  \/ \E i \in Slots : StopXvfb(i)
  \/ \E i \in Slots : LaunchResume(i)
  \/ \E i \in Slots : XvfbKill(i)
  \/ \E i \in Slots : XvfbSpawn(i)
  \/ \E i \in Slots : LaunchPrefix(i)
  \/ \E i \in Slots : Wineboot(i)
  \/ \E i \in Slots : Winetricks(i)
  \/ \E i \in Slots : Install(i)
  \/ \E i \in Slots : LaunchRegister(i)
  \/ \E i \in Slots : LaunchThen(i)
  \/ \E i \in Slots : LaunchCatch(i)
  \/ \E uid \in Accounts : HealthStart(uid)
  \/ HealthProbe
  \/ HealthDone
  \/ \E p \in procs : ProcExit(p)

SpecMgr == Init /\ [][MgrNext]_vars

(***************************************************************************)
(* Properties of the instance manager.                                     *)
(***************************************************************************)

\* C1: at most one runtime instance exists per tenant under every
\* interleaving of the connect, start, stop and delete handlers: the
\* registry holds at most one entry for a tenant and no two spawned terminal
\* processes of one tenant are alive at the same time.
C1_OneInstancePerTenant ==
  \A uid \in Accounts : Cardinality(ProcsOf(procs, uid)) <= 1

(***************************************************************************)
(* The split deployment: the VPS agent (pollLoop, launchInstance,          *)
(* stopInstance, healthCheck, the signal handlers) and the account routes  *)
(* and agent API of the web server.  The web server runs with              *)
(* VPS_AGENT_SECRET set, as the agent API requires, so WEB_ONLY_MODE is    *)
(* false.  thread.loop is the poll loop, thread.sig the signal handler.    *)
(***************************************************************************)

\* The ids of a set in ascending order (ORDER BY created_at ASC).
RECURSIVE InOrder(_)
InOrder(S) ==
  IF S = {} THEN <<>>
  ELSE LET m == CHOOSE x \in S : \A y \in S : x <= y
       IN  <<m>> \o InOrder(S \ {m})

\* The pending read without its WHERE clause.
PendingQueueAll(acc) == InOrder({u \in DOMAIN acc : RowExists(acc, u)})

\* GET /api/agent/pending: WHERE a.status IN ('pending_vps','starting')
PendingQueue(acc) == InOrder({u \in DOMAIN acc : acc[u] \in {"pending_vps", "starting"}})

\* GET /api/agent/stop-queue: WHERE status='stop_requested'
StopQueue(acc) == InOrder({u \in DOMAIN acc : acc[u] = "stop_requested"})

\* POST /api/agent/status: UPDATE mt5_accounts SET status=?,last_active=?
\* WHERE id=?, or nothing when the request does not get through
\* (reportStatus swallows the error).  The last_active column the route
\* also writes is followed in the coordinator's own specification.
Reported(acc, uid, status) == {SetStatus(acc, uid, status), acc}

\* A pid no live process has and nothing refers to.
FreshPid ==
  CHOOSE p \in 1..(Cardinality(procs) + 4) :
    /\ p \notin Pids(procs)
    /\ \A u \in DOMAIN runningInstances : runningInstances[u] # p
    /\ \A w \in DOMAIN thread : thread[w].pid # p
    /\ \A q \in 1..(p - 1) :
         \/ q \in Pids(procs)
         \/ \E u \in DOMAIN runningInstances : runningInstances[u] = q
         \/ \E w \in DOMAIN thread : thread[w].pid = q

\* An entry of the log of a thread.
Cmd(name, ok) == [cmd |-> name, ok |-> ok]

At(t, pc) == [t EXCEPT !.pc = pc]

\* stopInstance up to its first await, called with the continuation ret:
\* without a registry entry it returns at once.
agentStopInstance(t, reg, uid, ret) ==
  IF Has(reg, uid)
  THEN [t EXCEPT !.pc = "s_term", !.cur = uid, !.pid = reg[uid], !.ret = ret, !.did = <<>>]
  ELSE [t EXCEPT !.pc = ret, !.cur = uid, !.pid = 0, !.did = <<>>]

\* A for loop without the test of the registry.
NextLaunchNoSkip(t, reg, queue) ==
  IF queue = <<>> THEN [t EXCEPT !.pc = "stopq", !.queue = <<>>, !.cur = 0, !.pid = 0]
  ELSE [t EXCEPT !.pc = "rep_starting", !.queue = Tail(queue), !.cur = Head(queue),
                 !.pid = 0, !.sent = <<>>]

\* A failed launch ends the launches of the tick.
RECURSIVE NextLaunchNone(_, _, _)
NextLaunchNone(t, reg, queue) ==
  IF queue = <<>> \/ "threw" \in Range(t.sent)
  THEN [t EXCEPT !.pc = "stopq", !.queue = <<>>, !.cur = 0, !.pid = 0]
  ELSE IF Has(reg, Head(queue))
       THEN NextLaunchNone([t EXCEPT !.did = Append(t.did, Cmd("continue", TRUE))],
                           reg, Tail(queue))
  ELSE [t EXCEPT !.pc = "rep_starting", !.queue = Tail(queue), !.cur = Head(queue),
                 !.pid = 0, !.sent = <<>>]

\* for (const account of accounts): if (runningInstances.has(id)) continue;
\* await reportStatus(account.id, 'starting').  After the last account the
\* stop queue is fetched.  Each continue is noted in the log of the thread,
\* which the next request of the loop clears.
RECURSIVE NextLaunch(_, _, _)
NextLaunch(t, reg, queue) ==
  IF queue = <<>> THEN [t EXCEPT !.pc = "stopq", !.queue = <<>>, !.cur = 0, !.pid = 0]
  ELSE IF Has(reg, Head(queue))
       THEN NextLaunch([t EXCEPT !.did = Append(t.did, Cmd("continue", TRUE))],
                       reg, Tail(queue))
  ELSE [t EXCEPT !.pc = "rep_starting", !.queue = Tail(queue), !.cur = Head(queue),
                 !.pid = 0, !.sent = <<>>]

\* healthCheck placed before the stops.
NextHealthThenStops(t, reg, queue) ==
  IF queue = <<>> THEN [t EXCEPT !.pc = "stopq", !.queue = <<>>, !.cur = 0, !.pid = 0]
  ELSE IF ~Has(reg, Head(queue)) THEN [t EXCEPT !.pc = "stopq", !.queue = <<>>, !.cur = 0, !.pid = 0]
  ELSE [t EXCEPT !.pc = "h_probe", !.queue = Tail(queue), !.cur = Head(queue),
                 !.pid = reg[Head(queue)]]

\* for (const { id } of toStop) { await stopInstance(id); ... }, then
\* healthCheck over the entries of the registry.
RECURSIVE NextHealth(_, _, _)
NextHealth(t, reg, queue) ==
  IF queue = <<>> THEN [t EXCEPT !.pc = "sleep", !.queue = <<>>, !.cur = 0, !.pid = 0]
  ELSE IF ~Has(reg, Head(queue)) THEN NextHealth(t, reg, Tail(queue))
  ELSE [t EXCEPT !.pc = "h_probe", !.queue = Tail(queue), !.cur = Head(queue),
                 !.pid = reg[Head(queue)]]

NextStop(t, reg, queue) ==
  IF queue = <<>> THEN NextHealth(t, reg, InOrder(DOMAIN reg))
  ELSE agentStopInstance([t EXCEPT !.queue = Tail(queue)], reg, Head(queue),
                         "rep_stopped")

(***************************************************************************)
(* pollLoop                                                                *)
(***************************************************************************)
Loop == thread.loop

\* await webApi('POST', '/agent/heartbeat', {}): a failed request throws
\* into the catch of the tick, which goes to sleep(POLL_INTERVAL).
Heartbeat ==
  /\ ~exited /\ Loop.pc = "heartbeat"
  /\ \/ thread' = [thread EXCEPT !.loop = At(Loop, "pending")]
     \/ thread' = [thread EXCEPT !.loop = At(Loop, "sleep")]
  /\ UNCHANGED <<exited, failed, mgrVars, tradeVars, coordVars>>

\* const { accounts } = await webApi('GET', '/agent/pending', null)
FetchPending ==
  /\ ~exited /\ Loop.pc = "pending"
  /\ \/ thread' = [thread EXCEPT !.loop = NextLaunch(Loop, runningInstances, PendingQueue(accounts))]
     \/ thread' = [thread EXCEPT !.loop = At(Loop, "sleep")]
  /\ UNCHANGED <<exited, failed, mgrVars, tradeVars, coordVars>>

\* await reportStatus(account.id, 'starting'), then launchInstance up to
\* its first await (the pkill of startXvfb, or the stop of a registered
\* instance).  MaxAttempts bounds the launches begun while the signal
\* handler is at work: the poll loop alone never has more than one process
\* per account, only the processes orphaned when the signal handler
\* unregisters a relaunched account add to them without limit.
ReportStarting ==
  /\ ~exited /\ Loop.pc = "rep_starting"
  /\ launches < MaxAttempts
  /\ launches' = IF thread.sig.pc = "off" THEN launches ELSE launches + 1
  /\ accounts' \in Reported(accounts, Loop.cur, "starting")
  /\ thread' = [thread EXCEPT !.loop =
       agentStopInstance([Loop EXCEPT !.sent = Append(Loop.sent, "starting")],
                         runningInstances, Loop.cur, "l_xkill")]
  /\ UNCHANGED <<exited, failed, runningInstances, procs, nextPid, xvfb,
                 initialized, installed, tasks, marks, health, tradeVars, coordVars>>

\* spawn('wine', [mt5Exe, '/portable'], { detached: true }); sleep(5000)
AgentSpawned(t) == [t EXCEPT !.pc = "l_settle", !.pid = FreshPid]

\* launchInstance threw and nothing caught it
AgentThrewUncaught(t) == [t EXCEPT !.pc = "crashed"]

\* launchInstance threw: the catch of the loop reports 'error'
AgentThrew(t) == [t EXCEPT !.pc = "rep_error", !.sent = Append(t.sent, "threw")]

\* startXvfb: pkill -f "Xvfb :N"
AgentXvfbKill ==
  /\ ~exited /\ Loop.pc = "l_xkill"
  /\ xvfb' = xvfb \ {displayNum(Loop.cur)}
  /\ thread' = [thread EXCEPT !.loop = At(Loop, "l_xspawn")]
  /\ UNCHANGED <<exited, failed, accounts, runningInstances, procs, nextPid,
                 initialized, installed, tasks, marks, launches, health, tradeVars, coordVars>>

\* startXvfb: after sleep(500), spawn('Xvfb', ...); xvfb.on('error', reject)
\* makes launchInstance throw when the display server cannot be spawned
AgentXvfbSpawn ==
  /\ ~exited /\ Loop.pc = "l_xspawn"
  /\ \/ /\ xvfb' = xvfb \cup {displayNum(Loop.cur)}
        /\ thread' = [thread EXCEPT !.loop = At(Loop, "l_prefix")]
        /\ failed' = failed
     \/ /\ xvfb' = xvfb
        /\ thread' = [thread EXCEPT !.loop = AgentThrew(Loop)]
        /\ failed' = failed \cup {Loop.cur}
  /\ UNCHANGED <<exited, accounts, runningInstances, procs, nextPid,
                 initialized, installed, tasks, marks, launches, health, tradeVars, coordVars>>

\* After the 1500 ms of startXvfb: initWinePrefix, ensureMT5Installed
AgentPrefix ==
  /\ ~exited /\ Loop.pc = "l_prefix"
  /\ IF Loop.cur \notin initialized
     THEN /\ thread' = [thread EXCEPT !.loop = At(Loop, "l_wineboot")]
          /\ procs' = procs
     ELSE IF Loop.cur \notin installed
     THEN /\ thread' = [thread EXCEPT !.loop = At(Loop, "l_install")]
          /\ procs' = procs
     ELSE /\ thread' = [thread EXCEPT !.loop = AgentSpawned(Loop)]
          /\ procs' = procs \cup {[pid |-> FreshPid, uid |-> Loop.cur]}
  /\ UNCHANGED <<exited, failed, accounts, runningInstances, nextPid, xvfb,
                 initialized, installed, tasks, marks, launches, health, tradeVars, coordVars>>

\* execP('wineboot --init', { timeout: 30000 })
AgentWineboot ==
  /\ ~exited /\ Loop.pc = "l_wineboot"
  /\ \/ /\ thread' = [thread EXCEPT !.loop = At(Loop, "l_winetricks")]
        /\ failed' = failed
     \/ /\ thread' = [thread EXCEPT !.loop = AgentThrew(Loop)]
        /\ failed' = failed \cup {Loop.cur}
  /\ UNCHANGED <<exited, mgrVars, tradeVars, coordVars>>

\* A failing winetricks fails the bootstrap: no marker, the launch throws.
AgentWinetricksFatal ==
  /\ ~exited /\ Loop.pc = "l_winetricks"
  /\ \E ok \in BOOLEAN :
       IF ok
       THEN /\ initialized' = initialized \cup {Loop.cur}
            /\ thread' = [thread EXCEPT !.loop =
                 [Loop EXCEPT !.pc = "l_install", !.did = <<Cmd("winetricks", ok)>>]]
       ELSE /\ initialized' = initialized
            /\ thread' = [thread EXCEPT !.loop =
                 [AgentThrew(Loop) EXCEPT !.did = <<Cmd("winetricks", ok)>>]]
  /\ procs' = procs
  /\ UNCHANGED <<exited, failed, accounts, runningInstances, nextPid, xvfb,
                 installed, tasks, marks, launches, health, tradeVars, coordVars>>

\* try { await execP('winetricks -q vcrun2019 corefonts') } catch {}, then
\* fs.writeFileSync(marker, ...): the marker is written whether winetricks
\* succeeded or not (did notes which)
AgentWinetricks ==
  /\ ~exited /\ Loop.pc = "l_winetricks"
  /\ initialized' = initialized \cup {Loop.cur}
  /\ \E ok \in BOOLEAN :
       IF Loop.cur \notin installed
       THEN /\ thread' = [thread EXCEPT !.loop =
                 [Loop EXCEPT !.pc = "l_install", !.did = <<Cmd("winetricks", ok)>>]]
            /\ procs' = procs
       ELSE /\ thread' = [thread EXCEPT !.loop =
                 [AgentSpawned(Loop) EXCEPT !.did = <<Cmd("winetricks", ok)>>]]
            /\ procs' = procs \cup {[pid |-> FreshPid, uid |-> Loop.cur]}
  /\ UNCHANGED <<exited, failed, accounts, runningInstances, nextPid, xvfb,
                 installed, tasks, marks, launches, health, tradeVars, coordVars>>

\* A failed installer is ignored and the terminal is spawned all the same.
AgentInstallSpawnsAnyway ==
  /\ ~exited /\ Loop.pc = "l_install"
  /\ thread' = [thread EXCEPT !.loop = AgentSpawned(Loop)]
  /\ procs' = procs \cup {[pid |-> FreshPid, uid |-> Loop.cur]}
  /\ installed' \in {installed, installed \cup {Loop.cur}}
  /\ UNCHANGED <<exited, failed, accounts, runningInstances, nextPid, xvfb,
                 initialized, tasks, marks, launches, health, tradeVars, coordVars>>

\* execP(`wine "mt5setup.exe" /auto`, { timeout: 120000 })
AgentInstall ==
  /\ ~exited /\ Loop.pc = "l_install"
  /\ \/ /\ installed' = installed \cup {Loop.cur}
        /\ thread' = [thread EXCEPT !.loop = [AgentSpawned(Loop) EXCEPT !.did = <<>>]]
        /\ procs' = procs \cup {[pid |-> FreshPid, uid |-> Loop.cur]}
        /\ failed' = failed
     \/ /\ thread' = [thread EXCEPT !.loop = [AgentThrew(Loop) EXCEPT !.did = <<>>]]
        /\ failed' = failed \cup {Loop.cur}
        /\ UNCHANGED <<installed, procs>>
  /\ UNCHANGED <<exited, accounts, runningInstances, nextPid, xvfb,
                 initialized, tasks, marks, launches, health, tradeVars, coordVars>>

\* After sleep(5000): runningInstances.set(id, { pid: proc.pid, ... });
\* launchInstance returns and 'running' is reported
AgentRegister ==
  /\ ~exited /\ Loop.pc = "l_settle"
  /\ runningInstances' = Register(runningInstances, Loop.cur, Loop.pid)
  /\ thread' = [thread EXCEPT !.loop =
       [Loop EXCEPT !.pc = "rep_running", !.sent = Append(Loop.sent, "returned"),
                    !.did = <<>>]]
  /\ UNCHANGED <<exited, failed, accounts, procs, nextPid, xvfb,
                 initialized, installed, tasks, marks, launches, health, tradeVars, coordVars>>

\* await reportStatus(account.id, 'running'), then the next account
ReportRunning ==
  /\ ~exited /\ Loop.pc = "rep_running"
  /\ accounts' \in Reported(accounts, Loop.cur, "running")
  /\ thread' = [thread EXCEPT !.loop =
       NextLaunch([Loop EXCEPT !.sent = Append(Loop.sent, "running")],
                  runningInstances, Loop.queue)]
  /\ UNCHANGED <<exited, failed, runningInstances, procs, nextPid, xvfb,
                 initialized, installed, tasks, marks, launches, health, tradeVars, coordVars>>

\* catch (e) { await reportStatus(account.id, 'error') }, then the next account
ReportError ==
  /\ ~exited /\ Loop.pc = "rep_error"
  /\ accounts' \in Reported(accounts, Loop.cur, "error")
  /\ thread' = [thread EXCEPT !.loop =
       NextLaunch([Loop EXCEPT !.sent = Append(Loop.sent, "error")],
                  runningInstances, Loop.queue)]
  /\ UNCHANGED <<exited, failed, runningInstances, procs, nextPid, xvfb,
                 initialized, installed, tasks, marks, launches, health, tradeVars, coordVars>>

\* const { accounts: toStop } = await webApi('GET', '/agent/stop-queue', null)
FetchStopQueue ==
  /\ ~exited /\ Loop.pc = "stopq"
  /\ \/ thread' = [thread EXCEPT !.loop =
          NextStop([Loop EXCEPT !.sent = <<>>, !.did = <<>>],
                   runningInstances, StopQueue(accounts))]
     \/ thread' = [thread EXCEPT !.loop =
          [Loop EXCEPT !.pc = "sleep", !.sent = <<>>, !.did = <<>>]]
  /\ UNCHANGED <<exited, failed, mgrVars, tradeVars, coordVars>>

\* await reportStatus(id, 'stopped'), then the next stop or healthCheck
ReportStopped ==
  /\ ~exited /\ Loop.pc = "rep_stopped"
  /\ accounts' \in Reported(accounts, Loop.cur, "stopped")
  /\ thread' = [thread EXCEPT !.loop =
       NextStop([Loop EXCEPT !.did = <<>>], runningInstances, Loop.queue)]
  /\ UNCHANGED <<exited, failed, runningInstances, procs, nextPid, xvfb,
                 initialized, installed, tasks, marks, launches, health, tradeVars, coordVars>>

\* healthCheck: await execP(`kill -0 ${inst.pid}`); a dead process has its
\* entry deleted and 'error' reported
AgentProbe ==
  /\ ~exited /\ Loop.pc = "h_probe"
  /\ IF Loop.pid \in Pids(procs)
     THEN /\ thread' = [thread EXCEPT !.loop = NextHealth(Loop, runningInstances, Loop.queue)]
          /\ UNCHANGED <<runningInstances, failed>>
     ELSE /\ runningInstances' = Unregister(runningInstances, Loop.cur)
          /\ failed' = failed \cup {Loop.cur}
          /\ thread' = [thread EXCEPT !.loop = At(Loop, "h_report")]
  /\ UNCHANGED <<exited, accounts, procs, nextPid, xvfb,
                 initialized, installed, tasks, marks, launches, health, tradeVars, coordVars>>

\* await reportStatus(id, 'error')
AgentHealthReport ==
  /\ ~exited /\ Loop.pc = "h_report"
  /\ accounts' \in Reported(accounts, Loop.cur, "error")
  /\ thread' = [thread EXCEPT !.loop =
       NextHealth(Loop, runningInstances, Loop.queue)]
  /\ UNCHANGED <<exited, failed, runningInstances, procs, nextPid, xvfb,
                 initialized, installed, tasks, marks, launches, health, tradeVars, coordVars>>

\* await sleep(POLL_INTERVAL); the next tick
Sleep ==
  /\ ~exited /\ Loop.pc = "sleep"
  /\ thread' = [thread EXCEPT !.loop = At(Loop, "heartbeat")]
  /\ UNCHANGED <<exited, failed, mgrVars, tradeVars, coordVars>>

(***************************************************************************)
(* stopInstance of the agent, run by the poll loop and the signal handler  *)
(***************************************************************************)

\* One try around the whole teardown: a failed kill -TERM skips the rest.
AgentStopTermOneTry(w) ==
  /\ ~exited /\ thread[w].pc = "s_term"
  /\ thread' = [thread EXCEPT ![w].pc = IF thread[w].pid \in Pids(procs) THEN "s_kill9" ELSE "s_xvfb",
                  ![w].did = Append(thread[w].did, Cmd("term", thread[w].pid \in Pids(procs)))]
  /\ procs' = procs
  /\ UNCHANGED <<exited, failed, accounts, runningInstances, nextPid, xvfb,
                 initialized, installed, tasks, marks, launches, health, tradeVars, coordVars>>

\* try { await execP(`kill -TERM pid`); await sleep(2000); } catch {}
AgentStopTerm(w) ==
  /\ ~exited /\ thread[w].pc = "s_term"
  /\ thread' = [thread EXCEPT ![w].pc = "s_kill9",
                  ![w].did = Append(thread[w].did, Cmd("term", thread[w].pid \in Pids(procs)))]
  /\ \/ procs' = {p \in procs : p.pid # thread[w].pid}
     \/ procs' = procs
  /\ UNCHANGED <<exited, failed, accounts, runningInstances, nextPid, xvfb,
                 initialized, installed, tasks, marks, launches, health, tradeVars, coordVars>>

\* try { await execP(`kill -9 pid`); } catch {}
AgentStopKill(w) ==
  /\ ~exited /\ thread[w].pc = "s_kill9"
  /\ thread' = [thread EXCEPT ![w].pc = "s_wine",
                  ![w].did = Append(thread[w].did, Cmd("kill9", thread[w].pid \in Pids(procs)))]
  /\ procs' = {p \in procs : p.pid # thread[w].pid}
  /\ UNCHANGED <<exited, failed, accounts, runningInstances, nextPid, xvfb,
                 initialized, installed, tasks, marks, launches, health, tradeVars, coordVars>>

\* try { await execP(`wineserver -k`, { env: { WINEPREFIX } }); } catch {}
AgentStopWineserver(w) ==
  /\ ~exited /\ thread[w].pc = "s_wine"
  /\ thread' = [thread EXCEPT ![w].pc = "s_xvfb",
                  ![w].did = Append(thread[w].did,
                                    Cmd("wineserver", ProcsOf(procs, thread[w].cur) # {}))]
  /\ procs' = procs \ ProcsOf(procs, thread[w].cur)
  /\ UNCHANGED <<exited, failed, accounts, runningInstances, nextPid, xvfb,
                 initialized, installed, tasks, marks, launches, health, tradeVars, coordVars>>

\* What the caller does when stopInstance has returned: the poll loop goes
\* on at its continuation; the signal handler takes the next key of the
\* registry and, after the last one, calls process.exit(0).
AfterAgentStop(w, t, reg) ==
  IF w = "loop" THEN {[gone |-> FALSE, t |-> At(t, t.ret)]}
  ELSE IF DOMAIN reg = {} THEN {[gone |-> TRUE, t |-> At(t, "exited")]}
  ELSE {[gone |-> FALSE, t |-> agentStopInstance(t, reg, k, "sig")] : k \in DOMAIN reg}

\* try { await execP(`pkill -f "Xvfb :N"`); } catch {}
\* runningInstances.delete(id)
AgentStopXvfb(w) ==
  /\ ~exited /\ thread[w].pc = "s_xvfb"
  /\ xvfb' = xvfb \ {displayNum(thread[w].cur)}
  /\ runningInstances' = Unregister(runningInstances, thread[w].cur)
  /\ \E r \in AfterAgentStop(w,
                [thread[w] EXCEPT !.did = Append(thread[w].did,
                                     Cmd("xvfb", displayNum(thread[w].cur) \in xvfb))],
                Unregister(runningInstances, thread[w].cur)) :
       /\ thread' = [thread EXCEPT ![w] = r.t]
       /\ exited' = r.gone
  /\ UNCHANGED <<failed, accounts, procs, nextPid,
                 initialized, installed, tasks, marks, launches, health, tradeVars, coordVars>>

\* process.on('SIGTERM' / 'SIGINT'): for (const id of runningInstances.keys())
\* await stopInstance(id); process.exit(0)
Signal ==
  /\ ~exited /\ thread.sig.pc = "off"
  /\ \E r \in AfterAgentStop("sig", thread.sig, runningInstances) :
       /\ thread' = [thread EXCEPT !.sig = r.t]
       /\ exited' = r.gone
  /\ UNCHANGED <<failed, mgrVars, tradeVars, coordVars>>

(***************************************************************************)
(* The account routes of the web server                                    *)
(***************************************************************************)

\* const WEB_ONLY_MODE = !VPS_AGENT_SECRET;
\* const initialStatus = WEB_ONLY_MODE ? 'pending_vps' : 'starting'
InitialStatus(secret) == IF secret = "" THEN "pending_vps" ELSE "starting"

\* POST /api/mt5/connect: INSERT ... status initialStatus
UserConnect(uid) ==
  /\ accounts[uid] = "none"
  /\ accounts' = [accounts EXCEPT ![uid] = InitialStatus(agentSecret)]
  /\ UNCHANGED <<thread, exited, failed, runningInstances, procs, nextPid, xvfb,
                 initialized, installed, tasks, marks, launches, health, tradeVars, coordVars>>

\* POST /api/mt5/accounts/:id/start: UPDATE ... SET status=?
UserStart(uid) ==
  /\ RowExists(accounts, uid)
  /\ accounts' = SetStatus(accounts, uid, InitialStatus(agentSecret))
  /\ failed' = failed \ {uid}
  /\ UNCHANGED <<thread, exited, runningInstances, procs, nextPid, xvfb,
                 initialized, installed, tasks, marks, launches, health, tradeVars, coordVars>>

\* POST /api/mt5/accounts/:id/stop: UPDATE ... SET status='stop_requested'
UserStop(uid) ==
  /\ RowExists(accounts, uid)
  /\ accounts' = SetStatus(accounts, uid, "stop_requested")
  /\ UNCHANGED <<thread, exited, failed, runningInstances, procs, nextPid, xvfb,
                 initialized, installed, tasks, marks, launches, health, tradeVars, coordVars>>

\* DELETE /api/mt5/accounts/:id: DELETE FROM mt5_accounts WHERE id=?
UserDelete(uid) ==
  /\ RowExists(accounts, uid)
  /\ accounts' = [accounts EXCEPT ![uid] = "deleted"]
  /\ UNCHANGED <<thread, exited, failed, runningInstances, procs, nextPid, xvfb,
                 initialized, installed, tasks, marks, launches, health, tradeVars, coordVars>>

AgentNext ==
  \/ Heartbeat
  \/ FetchPending
  \/ ReportStarting
  \/ AgentXvfbKill
  \/ AgentXvfbSpawn
  \/ AgentPrefix
  \/ AgentWineboot
  \/ AgentWinetricks
  \/ AgentInstall
  \/ AgentRegister
  \/ ReportRunning
  \/ ReportError
  \/ FetchStopQueue
  \/ ReportStopped
  \/ AgentProbe
  \/ AgentHealthReport
  \/ Sleep
  \/ \E w \in {"loop", "sig"} : AgentStopTerm(w)
  \/ \E w \in {"loop", "sig"} : AgentStopKill(w)
  \/ \E w \in {"loop", "sig"} : AgentStopWineserver(w)
  \/ \E w \in {"loop", "sig"} : AgentStopXvfb(w)
  \/ Signal
  \/ \E uid \in AccountIds : UserConnect(uid)
  \/ \E uid \in AccountIds : UserStart(uid)
  \/ \E uid \in Accounts : UserStop(uid)
  \/ \E uid \in Accounts : UserDelete(uid)
  \/ \E p \in procs : ProcExit(p)

SpecAgent == Init /\ [][AgentNext]_vars

(***************************************************************************)
(* Properties of the split deployment.                                     *)
(***************************************************************************)

\* C11: no instance outlives its account record: once an account is
\* deleted, no terminal process of that account is running and the registry
\* holds no entry for it.
C11_NoInstanceOutlivesAccount ==
  \A uid \in AccountIds :
    accounts[uid] = "deleted" =>
      /\ ProcsOf(procs, uid) = {}
      /\ ~Has(runningInstances, uid)

\* C12: a stop request wins over a launch: the agent never overwrites the
\* status stop_requested of an account with starting or running (only the
\* start route of the web server, a user restart, may take the account out
\* of stop_requested towards a launch).
C12_StopRequestNotOverwritten ==
  [][\A uid \in AccountIds :
       (accounts[uid] = "stop_requested" /\ accounts'[uid] \in {"starting", "running"})
         => thread' = thread]_vars

\* C13: no automatic retry: the agent never begins a launch of an account
\* whose last launch failed or whose process the health check found dead,
\* unless the user restarted the account in between (failed holds exactly
\* those accounts).
C13_NoAutomaticRetry ==
  [][(thread.loop.pc = "rep_starting" /\ thread'.loop.pc \in {"l_xkill", "s_term"})
       => thread.loop.cur \notin failed]_vars

\* C14: every change of the status of an existing account follows the status
\* state machine: pending_vps -> starting -> running, running ->
\* stop_requested -> stopped, any state -> error, and error/stopped back to
\* the pending states (pending_vps, or starting as the start route writes it
\* when an agent is configured); no other transition occurs.
C14_StatusStateMachine ==
  [][\A uid \in AccountIds :
       (RowExists(accounts, uid) /\ RowExists(accounts', uid)
          /\ accounts'[uid] # accounts[uid])
         => \/ <<accounts[uid], accounts'[uid]>> \in
                 {<<"pending_vps", "starting">>, <<"starting", "running">>,
                  <<"running", "stop_requested">>, <<"stop_requested", "stopped">>}
            \/ accounts'[uid] = "error"
            \/ /\ accounts[uid] \in {"error", "stopped"}
               /\ accounts'[uid] \in {"pending_vps", "starting"}]_vars

\* The step of the tick a position of the poll loop belongs to: 1 heartbeat,
\* 2 fetch of the pending queue, 3 the launches, 4 fetch of the stop queue,
\* 5 the stops, 6 the health check, 7 the sleep between two ticks.
StepRank(t) ==
  CASE t.pc = "heartbeat" -> 1
    [] t.pc = "pending"   -> 2
    [] t.pc \in {"rep_starting", "l_xkill", "l_xspawn", "l_prefix", "l_wineboot",
                 "l_winetricks", "l_install", "l_settle", "rep_running", "rep_error"} -> 3
    [] t.pc = "stopq"     -> 4
    [] t.pc = "rep_stopped" -> 5
    [] t.pc \in {"s_term", "s_kill9", "s_wine", "s_xvfb"} ->
         IF t.ret = "l_xkill" THEN 3 ELSE 5
    [] t.pc \in {"h_probe", "h_report"} -> 6
    [] OTHER -> 7

\* C15: within a tick the poll loop only moves forward through its steps
\* (heartbeat, pending fetch, launches, stop-queue fetch, stops, health
\* check); it is at one position at a time, and only the sleep at the end of
\* the tick leads back to the heartbeat.
C15_TickOrder ==
  [][/\ thread'.loop.pc = "heartbeat" => thread.loop.pc \in {"sleep", "heartbeat"}
     /\ thread'.loop.pc # "heartbeat" =>
          StepRank(thread.loop) <= StepRank(thread'.loop)]_vars

\* A tick that is in its health check with an instance registered, after a
\* stop was carried out and reported.
C15_Witness ==
  /\ thread.loop.pc = "h_probe"
  /\ \E uid \in AccountIds : accounts[uid] = "stopped"

(***************************************************************************)
(* The poll loop under fair scheduling, without a termination signal: the  *)
(* event loop of Node runs every continuation that is ready, timers fire,  *)
(* and every command and request the loop awaits ends (with its result, an *)
(* error or its timeout).                                                  *)
(***************************************************************************)
LoopStep ==
  \/ Heartbeat
  \/ FetchPending
  \/ ReportStarting
  \/ AgentXvfbKill
  \/ AgentXvfbSpawn
  \/ AgentPrefix
  \/ AgentWineboot
  \/ AgentWinetricks
  \/ AgentInstall
  \/ AgentRegister
  \/ ReportRunning
  \/ ReportError
  \/ FetchStopQueue
  \/ ReportStopped
  \/ AgentProbe
  \/ AgentHealthReport
  \/ Sleep
  \/ AgentStopTerm("loop")
  \/ AgentStopKill("loop")
  \/ AgentStopWineserver("loop")
  \/ AgentStopXvfb("loop")

LiveNext ==
  \/ LoopStep
  \/ \E uid \in AccountIds : UserConnect(uid)
  \/ \E uid \in AccountIds : UserStart(uid)
  \/ \E uid \in Accounts : UserStop(uid)
  \/ \E uid \in Accounts : UserDelete(uid)
  \/ \E p \in procs : ProcExit(p)

SpecAgentLive == Init /\ [][LiveNext]_vars /\ WF_vars(LoopStep)

C17_LaunchReports ==
  [][/\ thread'.loop.sent \in
          {<<>>, <<"starting">>,
           <<"starting", "returned">>, <<"starting", "returned", "running">>,
           <<"starting", "threw">>, <<"starting", "threw", "error">>}
     /\ StepRank(thread'.loop) = 3 /\ thread'.loop.pc \notin {"rep_starting", "rep_running", "rep_error"}
          => thread'.loop.sent = <<"starting">>
     /\ (/\ thread.loop.pc = "rep_error"
         /\ thread'.loop # thread.loop
         /\ thread.loop.queue # <<>>
         /\ ~Has(runningInstances, Head(thread.loop.queue)))
          => /\ thread'.loop.pc = "rep_starting"
             /\ thread'.loop.cur = Head(thread.loop.queue)]_vars

\* A launch has thrown, its 'error' report is about to be sent, and another
\* pending account of the same tick is still to be attempted.
C17_Witness ==
  /\ thread.loop.pc = "rep_error"
  /\ thread.loop.sent = <<"starting", "threw">>
  /\ thread.loop.queue # <<>>
  /\ ~Has(runningInstances, Head(thread.loop.queue))

\* C18: stopInstance of a registered account sends kill -TERM first, then
\* kill -9, then wineserver -k for the account's prefix, then the pkill of
\* its display server, each attempted whether or not an earlier command
\* failed, and the account is absent from the registry when stopInstance
\* returns.  did is the log of the commands of the stop in progress.
C18_StopBestEffort ==
  [][\A w \in {"loop", "sig"} :
       (thread[w].pc = "s_xvfb" /\ thread'[w] # thread[w])
         => /\ [i \in DOMAIN thread[w].did |-> thread[w].did[i].cmd]
                 = <<"term", "kill9", "wineserver">>
            /\ displayNum(thread[w].cur) \notin xvfb'
            /\ ~Has(runningInstances', thread[w].cur)]_vars

\* A stop whose kill -TERM failed (the process was gone) has gone on through
\* kill -9 and wineserver -k and is about to kill the display server.
C18_Witness ==
  \E w \in {"loop", "sig"} :
    /\ thread[w].pc = "s_xvfb"
    /\ Len(thread[w].did) = 3
    /\ ~thread[w].did[1].ok

\* C19: healthCheck removes from the registry every process its probe found
\* dead and reports the account as status 'error', leaves the entries of
\* processes found alive in place, and starts no process.  The first
\* conjunct is healthCheck of the single server, the other two are
\* healthCheck of the agent (the probe, then reportStatus).
C19_HealthCheckReportsDead ==
  [][/\ (health.pc = "probed" /\ health'.pc = "idle")
          => /\ procs' = procs
             /\ IF health.alive
                THEN runningInstances' = runningInstances
                ELSE /\ ~Has(runningInstances', health.uid)
                     /\ RowExists(accounts, health.uid)
                          => accounts'[health.uid] = "error"
     /\ (thread.loop.pc = "h_probe" /\ thread'.loop # thread.loop)
          => /\ procs' = procs
             /\ IF thread.loop.pid \in Pids(procs)
                THEN runningInstances' = runningInstances
                ELSE /\ ~Has(runningInstances', thread.loop.cur)
                     /\ thread'.loop.pc = "h_report"
     /\ (thread.loop.pc = "h_report" /\ thread'.loop # thread.loop)
          => /\ procs' = procs
             /\ accounts' \in Reported(accounts, thread.loop.cur, "error")]_vars

\* C20: on a termination signal the agent stops every instance it started
\* before it exits: once the process has exited the registry is empty and no
\* terminal process the agent spawned is running, a process spawned but not
\* yet registered when the signal arrived included.
C20_ExitLeavesNothingRunning ==
  exited => /\ DOMAIN runningInstances = {}
            /\ procs = {}

\* The position of a step in launchInstance: display (pkill, spawn of Xvfb),
\* bootstrap (wineboot, winetricks and marker), install, then the step that
\* writes the login config, deploys the plugin and spawns the terminal, then
\* the registration.
LaunchRank(pc) ==
  CASE pc = "l_xkill"      -> 1
    [] pc = "l_xspawn"     -> 2
    [] pc = "l_prefix"     -> 3
    [] pc = "l_wineboot"   -> 4
    [] pc = "l_winetricks" -> 5
    [] pc = "l_install"    -> 6
    [] pc = "l_settle"     -> 7
    [] pc = "rep_running"  -> 8
    [] OTHER               -> 0

C22_BootstrapMarker ==
  [][/\ initialized \subseteq initialized'
     /\ initialized' # initialized
          => /\ thread.loop.pc = "l_winetricks"
             /\ initialized' = initialized \cup {thread.loop.cur}
     /\ (thread'.loop.pc = "l_winetricks" /\ thread.loop.pc # "l_winetricks")
          => /\ thread.loop.pc = "l_wineboot"
             /\ thread.loop.cur \notin initialized
     /\ (thread.loop.pc = "l_winetricks" /\ thread'.loop # thread.loop)
          => /\ thread.loop.cur \in initialized'
             /\ thread'.loop.pc \in {"l_install", "l_settle"}
     /\ (thread.loop.pc = "l_prefix" /\ thread'.loop # thread.loop
           /\ thread.loop.cur \in initialized)
          => thread'.loop.pc \in {"l_install", "l_settle"}]_vars

\* winetricks has failed, the marker is written and the launch is going on
\* with the install.
C22_Witness ==
  /\ thread.loop.pc = "l_install"
  /\ thread.loop.did = <<Cmd("winetricks", FALSE)>>
  /\ thread.loop.cur \in initialized

CoordInstants == {Epoch, Epoch + 1, Epoch + 59, Epoch + 60, Epoch + 61}

\* The x-agent-secret header of a request: the right one, a wrong one, an
\* empty one, none.
AgentHeaders == {"S1", "S2", "", "none"}

\* The body of a status report: account_id 0 and status "" stand for a
\* missing (or falsy) field.
ReportIds == {0} \cup AccountIds
ReportStatuses == {"", "running", "error"}

\* The gate without its first test.
requireAgentNoConfigTest(secret, hdr) ==
  IF hdr # secret THEN 401 ELSE 0

\* function requireAgent: 0 stands for next()
requireAgent(secret, hdr) ==
  IF secret = "" THEN 503
  ELSE IF hdr # secret THEN 401
  ELSE 0

\* The connection test with the 60th second included.
VpsConnectedWithin(secret, ts, ping) ==
  IF secret = "" THEN "" ELSE (ts - ping) <= 60

\* vps_connected of /api/system/status:
\* VPS_AGENT_SECRET && (now() - lastAgentPing) < 60
VpsConnected(secret, ts, ping) ==
  IF secret = "" THEN "" ELSE (ts - ping) < 60

CoordTick ==
  /\ \E t \in CoordInstants : t > clock /\ clock' = t
  /\ UNCHANGED <<channels, trades, history, subs, last, firstClose, pushes, mgrVars,
                 agentVars, coordVars>>

\* The web server process is started again, with or without
\* VPS_AGENT_SECRET: the tables stay, lastAgentPing is 0 again.
ServerRestart(secret) ==
  /\ agentSecret' = secret
  /\ lastAgentPing' = 0
  /\ reply' = [route |-> "none", code |-> 0]
  /\ UNCHANGED <<lastActive, tradeVars, mgrVars, agentVars>>

\* POST /api/agent/status
AgentStatus(hdr, id, status) ==
  /\ \E gate \in {requireAgent(agentSecret, hdr)} :
       IF gate # 0
       THEN /\ reply' = [route |-> "status", code |-> gate]
            /\ UNCHANGED <<accounts, lastActive>>
       ELSE IF id = 0 \/ status = ""
       THEN /\ reply' = [route |-> "status", code |-> 400]
            /\ UNCHANGED <<accounts, lastActive>>
       ELSE /\ accounts' = SetStatus(accounts, id, status)
            /\ lastActive' = IF RowExists(accounts, id)
                             THEN [lastActive EXCEPT ![id] = clock]
                             ELSE lastActive
            /\ reply' = [route |-> "status", code |-> 200]
  /\ UNCHANGED <<agentSecret, lastAgentPing, runningInstances, procs, nextPid, xvfb,
                 initialized, installed, tasks, marks, launches, health,
                 tradeVars, agentVars>>

\* POST /api/agent/heartbeat
AgentHeartbeat(hdr) ==
  /\ \E gate \in {requireAgent(agentSecret, hdr)} :
       IF gate # 0
       THEN /\ reply' = [route |-> "heartbeat", code |-> gate]
            /\ lastAgentPing' = lastAgentPing
       ELSE /\ lastAgentPing' = clock
            /\ reply' = [route |-> "heartbeat", code |-> 200, server_time |-> clock]
  /\ UNCHANGED <<agentSecret, lastActive, tradeVars, mgrVars, agentVars>>

\* GET /api/agent/pending
AgentPending(hdr) ==
  /\ \E gate \in {requireAgent(agentSecret, hdr)} :
       reply' = IF gate # 0 THEN [route |-> "pending", code |-> gate]
                ELSE [route |-> "pending", code |-> 200,
                      accounts |-> PendingQueue(accounts)]
  /\ UNCHANGED <<agentSecret, lastActive, lastAgentPing, tradeVars, mgrVars, agentVars>>

\* GET /api/agent/stop-queue
AgentStopQueue(hdr) ==
  /\ \E gate \in {requireAgent(agentSecret, hdr)} :
       reply' = IF gate # 0 THEN [route |-> "stop-queue", code |-> gate]
                ELSE [route |-> "stop-queue", code |-> 200,
                      accounts |-> StopQueue(accounts)]
  /\ UNCHANGED <<agentSecret, lastActive, lastAgentPing, tradeVars, mgrVars, agentVars>>

\* GET /api/system/status
SystemStatus ==
  /\ reply' = [route |-> "system", code |-> 200, web_only |-> (agentSecret = ""),
               vps_connected |-> VpsConnected(agentSecret, clock, lastAgentPing),
               vps_last_seen |-> IF lastAgentPing = 0 THEN "null" ELSE lastAgentPing]
  /\ UNCHANGED <<agentSecret, lastActive, lastAgentPing, tradeVars, mgrVars, agentVars>>

CoordNext ==
  \/ CoordTick
  \/ \E secret \in {"", "S1"} : ServerRestart(secret)
  \/ \E hdr \in AgentHeaders, id \in ReportIds, status \in ReportStatuses :
       AgentStatus(hdr, id, status)
  \/ \E hdr \in AgentHeaders : AgentHeartbeat(hdr)
  \/ \E hdr \in AgentHeaders : AgentPending(hdr)
  \/ \E hdr \in AgentHeaders : AgentStopQueue(hdr)
  \/ SystemStatus
  \/ \E uid \in AccountIds : UserConnect(uid)
  \/ \E uid \in Accounts : UserStart(uid)
  \/ \E uid \in Accounts : UserStop(uid)

SpecCoord == Init /\ [][CoordNext]_vars

(***************************************************************************)
(* Properties of the agent API.                                            *)
(***************************************************************************)

\* C24: an admitted status report {account_id, status} sets the status of
\* that account to the reported value and its last_active to the current
\* time whatever its status was, and changes no other account; a report
\* without account_id or without status is answered 400 and changes nothing.
C24_StatusReport ==
  [][\A hdr \in AgentHeaders, id \in ReportIds, status \in ReportStatuses :
       (AgentStatus(hdr, id, status) /\ requireAgent(agentSecret, hdr) = 0)
         => IF id = 0 \/ status = ""
            THEN /\ reply'.code = 400
                 /\ accounts' = accounts
                 /\ lastActive' = lastActive
            ELSE /\ reply'.code = 200
                 /\ RowExists(accounts, id)
                      => accounts'[id] = status /\ lastActive'[id] = clock
                 /\ \A uid \in AccountIds \ {id} :
                      accounts'[uid] = accounts[uid] /\ lastActive'[uid] = lastActive[uid]]_vars

\* A report has just set account 1 to error at the latest instant, while
\* account 2 keeps the status and the timestamp an earlier report gave it.
C24_Witness ==
  /\ reply = [route |-> "status", code |-> 200]
  /\ accounts[1] = "error" /\ lastActive[1] = Epoch + 61
  /\ accounts[2] = "running" /\ lastActive[2] = Epoch + 1

\* C25: /api/system/status reports the agent as connected exactly when the
\* recorded heartbeat is less than 60 seconds old; every heartbeat that passes
\* requireAgent sets the recorded timestamp to the current second; and while
\* no heartbeat has been recorded (lastAgentPing = 0) the agent is reported as
\* not connected.
C25_ConnectedWithinMinute ==
  [][/\ SystemStatus =>
          /\ (agentSecret # "" /\ reply'.vps_connected)
                <=> (clock - lastAgentPing < 60)
          /\ lastAgentPing = 0 => ~(agentSecret # "" /\ reply'.vps_connected)
     /\ \A hdr \in AgentHeaders :
          (AgentHeartbeat(hdr) /\ requireAgent(agentSecret, hdr) = 0)
             => lastAgentPing' = clock /\ reply'.code = 200]_vars

\* The heartbeat recorded at Epoch is exactly 60 seconds old and the status
\* route has just answered "not connected".
C25_Witness ==
  /\ reply.route = "system"
  /\ agentSecret # ""
  /\ lastAgentPing = Epoch
  /\ clock = Epoch + 60
  /\ reply.vps_connected = FALSE
  /\ reply.vps_last_seen = Epoch

\* A request whose x-agent-secret header is not the configured secret, or any
\* request while no secret is configured.
Unauthorized(hdr) == agentSecret = "" \/ hdr # agentSecret

\* The answer of a route that refused the request: a status code and nothing
\* else, with the accounts table and the heartbeat timestamp left alone.
RefusedByGate ==
  /\ reply'.code \in {401, 503}
  /\ DOMAIN reply' = {"route", "code"}
  /\ accounts' = accounts
  /\ lastActive' = lastActive
  /\ lastAgentPing' = lastAgentPing

\* C26: none of the four agent routes (pending, stop-queue, status,
\* heartbeat) acts for a request without the configured secret: such a
\* request, and every request while no secret is configured, is answered 401
\* or 503 with no data, and account statuses and the heartbeat timestamp stay
\* as they were.
C26_AgentRoutesNeedSecret ==
  [][\A hdr \in AgentHeaders :
       Unauthorized(hdr) =>
         /\ AgentPending(hdr) => RefusedByGate
         /\ AgentStopQueue(hdr) => RefusedByGate
         /\ AgentHeartbeat(hdr) => RefusedByGate
         /\ \A id \in ReportIds, status \in ReportStatuses :
              AgentStatus(hdr, id, status) => RefusedByGate]_vars

\* A heartbeat with a wrong secret has just been refused while an account is
\* running and an earlier heartbeat is on record.
C26_Witness ==
  /\ agentSecret = "S1"
  /\ reply = [route |-> "heartbeat", code |-> 401]
  /\ lastAgentPing = Epoch
  /\ clock = Epoch + 61
  /\ accounts[1] = "running"

(***************************************************************************)
(* Properties of the subscription state machine.                           *)
(***************************************************************************)

\* The subscription of subscriber s1 to channel ABC, before and after a step.
SubBefore == SubState(subs, "ABC", "s1")
SubAfter  == SubState(subs', "ABC", "s1")

\* The step handled an accepted PATCH by the owner of channel ABC on that
\* subscription.
OwnerPatched ==
  /\ last'.op = "patch"
  /\ last'.status = 200
  /\ last'.id = SubId("ABC", "s1")
  /\ last'.user = channels["ABC"].owner_id

\* The step handled an accepted subscribe request of s1 for channel ABC,
\* with the code spelled as it is stored.
Resubscribed ==
  /\ last'.op = "subscribe"
  /\ last'.status = 200
  /\ last'.code = "ABC"
  /\ last'.slave_id = "s1"

\* A fetch of s1 on channel ABC while it requires approval.
GatedFetch(req) ==
  /\ Fetch(req)
  /\ Upper(req.code) = "ABC"
  /\ SlaveId(req) = "s1"
  /\ channels["ABC"].require_sub # 0

SubKeys == {SubId(c, sid) : c \in {"ABC", "abc"}, sid \in {"s1", "unknown"}}

SubStates == {"pending", "approved", "rejected", "revoked"}

\* The state the channel of key k asks a new subscription to start in.
StartState(k) ==
  IF channels[Upper(k.channel)].require_sub # 0 THEN "pending" ELSE "approved"

\* The step handled an accepted subscribe request for key k.
SubscribedTo(k) ==
  /\ last'.op = "subscribe"
  /\ last'.status = 200
  /\ last'.code = k.channel
  /\ last'.slave_id = k.slave_id

\* The step handled a fetch for key k that the channel let pass without
\* asking for approval.
FetchedOpen(k) ==
  /\ last'.op = "fetch"
  /\ last'.status = 200
  /\ last'.channel = k.channel
  /\ last'.slave_id = k.slave_id
  /\ last'.require_sub = 0

\* The step handled an accepted approve, reject or revoke of the row of key
\* k by the owner of its channel; the state that action gives.
OwnerAction(k) ==
  /\ last'.op = "patch"
  /\ last'.status = 200
  /\ last'.id = k
  /\ k.channel \in DOMAIN channels
  /\ last'.user = channels[k.channel].owner_id

ActionState(action) ==
  CASE action = "approve" -> "approved"
    [] action = "reject"  -> "rejected"
    [] action = "revoke"  -> "revoked"

\* C28: a subscription row appears only through an accepted subscribe
\* (pending if the channel requires approval, approved otherwise) or through
\* a fetch on a channel that does not require approval (approved); a first
\* subscribe always creates it; once it exists it is never removed and its
\* state changes only by an accepted approve, reject or revoke of the owner
\* of its channel; there is one row per key and its state is always one of
\* pending, approved, rejected, revoked.
C28_SubscriptionLifecycle ==
  [][/\ \A r \in subs' :
          r.status \in SubStates /\ SubId(r.channel, r.slave_id) \in SubKeys
     /\ \A k \in SubKeys :
          \E before \in {SubState(subs, k.channel, k.slave_id)},
             after \in {SubState(subs', k.channel, k.slave_id)} :
            /\ Cardinality(SubRows(subs', k.channel, k.slave_id)) <= 1
            /\ IF before = "none"
               THEN /\ after # "none" =>
                         \/ SubscribedTo(k) /\ after = StartState(k)
                         \/ FetchedOpen(k) /\ after = "approved"
                    /\ SubscribedTo(k) => after = StartState(k)
               ELSE \/ after = before
                    \/ OwnerAction(k) /\ after = ActionState(last'.action)]_vars

\* A fetch on the channel, which does not require approval, has just created
\* the subscription of s1 as approved.
C28_Witness ==
  /\ last.op = "fetch"
  /\ last.status = 200
  /\ last.channel = "ABC"
  /\ last.slave_id = "s1"
  /\ last.sub = "none"
  /\ last.require_sub = 0
  /\ SubState(subs, "ABC", "s1") = "approved"

\* The step handled a push (the clock stands still while a request is
\* handled); the channel row the request was authenticated against.
PushStep == last'.op = "push" /\ clock' = clock
PushTarget == Upper(last'.code)

\* What the claim says of a push step on channel row c.
FreshAfterPush(c) ==
  IF last'.status = 200
  THEN /\ channels'[c].last_active = clock
       /\ \A ts \in clock..(clock + FreshWindow) : ~Stale(ts, channels'[c])
  ELSE \A d \in DOMAIN channels : channels'[d].last_active = channels[d].last_active

\* C29: a push accepted at time T leaves the last-active timestamp of its
\* channel equal to T, so that the staleness test of a fetch at any time up
\* to T + 30 gives stale = false; a push that is not accepted leaves every
\* last-active timestamp as it was.
C29_AcceptedPushIsFresh ==
  [][PushStep => FreshAfterPush(PushTarget)]_vars

\* The same for the pushes that spell the code as it is stored.
AcceptedPushIsFreshExactCode ==
  [][(PushStep /\ (last'.status = 200 => last'.code \in DOMAIN channels))
       => FreshAfterPush(PushTarget)]_vars

(***************************************************************************)
(* Properties of the pending loop of the agent.                            *)
(***************************************************************************)

\* The pending entries the poll loop still has before it at a point where it
\* takes the next one: the answer of /agent/pending, or the rest of it.
EntriesAhead ==
  IF Loop.pc = "pending" THEN PendingQueue(accounts) ELSE Loop.queue

\* The poll loop took its next pending entries in this step: it left one of
\* the points of the for loop for the 'starting' report of an account or, the
\* entries used up, for the stop queue.
TookEntries ==
  /\ ~exited
  /\ Loop.pc \in {"pending", "rep_running", "rep_error"}
  /\ thread'.sig = thread.sig
  /\ thread'.loop.pc \in {"rep_starting", "stopq"}

\* The entries gone through in the step.
EntriesTaken ==
  {EntriesAhead[i] : i \in 1..(Len(EntriesAhead) - Len(thread'.loop.queue))}

\* C30: when the poll loop comes to the pending entry of an account that is
\* in its registry at that moment, it goes on to the next entry: no launch is
\* begun for the account, no process is spawned or stopped, no bootstrap or
\* install is done, the registry stays as it is and no status is reported for
\* the account.  A launch is begun only for an account that is not registered.
C30_RegisteredIsSkipped ==
  [][TookEntries =>
       /\ \A u \in EntriesTaken :
            Has(runningInstances, u) =>
              /\ ~(thread'.loop.pc = "rep_starting" /\ thread'.loop.cur = u)
              /\ accounts'[u] = accounts[u]
       /\ thread'.loop.pc = "rep_starting" =>
            /\ thread'.loop.cur \in EntriesTaken
            /\ ~Has(runningInstances, thread'.loop.cur)
       /\ UNCHANGED <<runningInstances, procs, xvfb, initialized, installed, nextPid>>]_vars

\* Account 1 is registered and was set to 'starting' again by its user;
\* the loop has passed over its entry with continue and is about to report
\* 'starting' for account 2, the last pending entry, with nothing spawned
\* beyond the one process of account 1.
C30_Witness ==
  /\ Loop.pc = "rep_starting"
  /\ Loop.cur = 2
  /\ Loop.queue = <<>>
  /\ Loop.did = <<Cmd("continue", TRUE)>>
  /\ Has(runningInstances, 1)
  /\ ~Has(runningInstances, 2)
  /\ accounts[1] = "starting"
  /\ accounts[2] = "starting"
  /\ Cardinality(procs) = 1

(***************************************************************************)
(* Properties of a launch for a registered tenant.                         *)
(***************************************************************************)

\* The steps of launchInstance from startXvfb on.
Provisioning == {"xkill", "xspawn", "prefix", "wineboot", "winetricks", "install", "settle"}

\* Task i has just been given the call of launchInstance (by connect, or by
\* start after its UPDATE).
LaunchCalled(i) ==
  /\ tasks[i].kind \in {"idle", "start"}
  /\ tasks'[i].kind = "launch"

\* C31: a call of launchInstance for a tenant with a registry entry begins
\* with stopInstance for that entry's process, goes through its teardown in
\* order (kill -TERM, kill -9 unless the TERM already failed, wineserver -k,
\* the kill of the display, the removal of the registry entry), and only
\* after stopInstance has returned does it reach startXvfb; a call enters
\* the provisioning steps directly only when the tenant had no entry.
C31_StopBeforeRelaunch ==
  [][\A i \in Slots :
       /\ LaunchCalled(i) =>
            IF Has(runningInstances, tasks'[i].uid)
            THEN tasks'[i].pc = "term" /\ tasks'[i].pid = runningInstances[tasks'[i].uid]
            ELSE tasks'[i].pc = "xkill"
       /\ (tasks[i].kind = "launch" /\ tasks'[i].pc # tasks[i].pc) =>
            /\ tasks'[i].pc = "kill9" => tasks[i].pc = "term"
            /\ tasks'[i].pc = "wineserver" =>
                 \/ tasks[i].pc = "kill9"
                 \/ tasks[i].pc = "term" /\ tasks[i].pid \notin Pids(procs)
            /\ tasks'[i].pc = "xvfb" => tasks[i].pc = "wineserver"
            /\ tasks'[i].pc = "relaunch" =>
                 /\ tasks[i].pc = "xvfb"
                 /\ ~Has(runningInstances', tasks[i].uid)
                 /\ displayNum(tasks[i].uid) \notin xvfb'
            /\ tasks'[i].pc = "xkill" => tasks[i].pc = "relaunch"
            /\ tasks[i].pc \notin Provisioning =>
                 /\ procs' \subseteq procs
                 /\ UNCHANGED <<nextPid, initialized, installed>>
                 /\ xvfb' \subseteq xvfb]_vars

\* A launch for a registered tenant has finished stopInstance and waits its
\* two seconds before startXvfb: the entry, the tenant's processes and its
\* display are gone.
C31_Witness ==
  \E i \in Slots :
    /\ tasks[i].kind = "launch"
    /\ tasks[i].pc = "relaunch"
    /\ ~Has(runningInstances, tasks[i].uid)
    /\ ProcsOf(procs, tasks[i].uid) = {}
    /\ displayNum(tasks[i].uid) \notin xvfb

(***************************************************************************)
(* Properties of the upsert of the open snapshot.                          *)
(***************************************************************************)

\* The first and the last entry of a snapshot for ticket k.
FirstEntry(snapshot, k) ==
  snapshot[CHOOSE i \in DOMAIN snapshot :
             snapshot[i].ticket = k /\ \A j \in 1..(i - 1) : snapshot[j].ticket # k]
LastEntry(snapshot, k) ==
  snapshot[CHOOSE i \in DOMAIN snapshot :
             snapshot[i].ticket = k /\ \A j \in (i + 1)..Len(snapshot) : snapshot[j].ticket # k]

\* Row r carries the size, stop, target and floating profit of entry e.
MutableFrom(r, e) ==
  /\ r.lots = e.lots
  /\ r.sl = OrZero(e, "sl")
  /\ r.tp = OrZero(e, "tp")
  /\ r.profit = OrZero(e, "profit")

\* Rows r and o agree on symbol, direction, open price and open time.
SameIdentity(r, o) ==
  /\ r.symbol = o.symbol
  /\ r.type = o.type
  /\ r.open_price = o.open_price
  /\ r.open_time = o.open_time

\* What the claim says of the open set of channel ch after a push of the
\* snapshot, given the open set before it.
UpsertedAsClaimed(before, after, ch, snapshot) ==
  \A k \in TicketsOf(snapshot) :
    \E r \in OpenRows(after, ch) :
      /\ r.ticket = k
      /\ MutableFrom(r, LastEntry(snapshot, k))
      /\ IF k \in OpenTickets(before, ch)
         THEN \A o \in OpenRows(before, ch) : o.ticket = k => SameIdentity(r, o)
         ELSE SameIdentity(r, FirstEntry(snapshot, k))

\* C32: in every reachable state and for every push that is accepted there,
\* each ticket of the snapshot is in the channel's open set afterwards with
\* the pushed lots, sl, tp and profit; a ticket that was in the open set
\* keeps its stored symbol, type, open price and open time, a new ticket has
\* the pushed ones.
C32_UpsertOverwritesMutable ==
  \A req \in PushRequests :
    \E r \in {PushResult(Db, req, clock)} :
      r.status = 200
        => UpsertedAsClaimed(trades, r.db.trades, Upper(req.code), req.trades)

\* The same for the pushes that spell the code as it is stored and do not
\* report a ticket of their snapshot as closed.
UpsertOverwritesMutablePlain ==
  \A req \in PushRequests :
    \E r \in {PushResult(Db, req, clock)} :
      ( /\ r.status = 200
        /\ req.code \in DOMAIN channels
        /\ TicketsOf(req.trades) \cap TicketsOf(req.closed) = {} )
        => UpsertedAsClaimed(trades, r.db.trades, req.code, req.trades)

(***************************************************************************)
(* The agent with two accounts whose ids are 200 apart (mt5_accounts.id is *)
(* AUTOINCREMENT: the 201st account has id 201).                           *)
(***************************************************************************)
DisplayIds == {1, 201}

InitDisplay == InitOver(DisplayIds)

DisplayNext ==
  \/ LoopStep
  \/ \E uid \in DisplayIds : UserConnect(uid)
  \/ \E uid \in DisplayIds : UserStart(uid)
  \/ \E uid \in DisplayIds : UserStop(uid)
  \/ \E uid \in DisplayIds : UserDelete(uid)
  \/ \E p \in procs : ProcExit(p)

SpecDisplay == InitDisplay /\ [][DisplayNext]_vars

\* C33: two distinct registered tenants never have the same display number,
\* and a step that kills a display (the stale-display pkill of startXvfb, the
\* pkill of stopInstance) never kills the display of a registered tenant
\* other than the one the step works for.
C33_DisplaysNeverShared ==
  [][/\ \A u, v \in DOMAIN runningInstances' :
          u # v => displayNum(u) # displayNum(v)
     /\ \A d \in xvfb \ xvfb' :
          \A u \in DOMAIN runningInstances :
            displayNum(u) = d => u = Loop.cur]_vars

\* The same with the registry of the two-account agent whose ids are 1 and 2.
DisplaysDistinctSmallIds ==
  \A u, v \in DOMAIN runningInstances : u # v => displayNum(u) # displayNum(v)

(***************************************************************************)
(* The agent across a restart: the process is killed or crashes and is     *)
(* started again.  const runningInstances = new Map() is empty again; the  *)
(* terminals and display servers were spawned detached and unref'd and     *)
(* are still there.                                                        *)
(***************************************************************************)
AgentRestart ==
  /\ Cardinality(procs) <= MaxOrphans
  /\ thread # AgentStarted \/ DOMAIN runningInstances # {}
  /\ thread' = AgentStarted
  /\ runningInstances' = [u \in {} |-> 0]
  /\ exited' = FALSE
  /\ UNCHANGED <<failed, accounts, procs, nextPid, xvfb, initialized, installed,
                 tasks, marks, launches, health, tradeVars, coordVars>>

RestartNext ==
  \/ LoopStep
  \/ AgentRestart
  \/ \E uid \in AccountIds : UserConnect(uid)
  \/ \E uid \in AccountIds : UserStart(uid)
  \/ \E uid \in Accounts : UserStop(uid)
  \/ \E uid \in Accounts : UserDelete(uid)
  \/ \E p \in procs : ProcExit(p)

SpecRestart == Init /\ [][RestartNext]_vars

\* The poll loop sends the 'stopped' report of the account it has just
\* called stopInstance for.
SendsStopped ==
  /\ Loop.pc = "rep_stopped"
  /\ thread'.loop # Loop
  /\ thread' # AgentStarted

\* C34: at every 'stopped' report of the agent no terminal process launched
\* for the reported account is running, whichever run of the agent launched
\* it.
C34_StoppedMeansNoProcess ==
  [][SendsStopped => ProcsOf(procs, Loop.cur) = {}]_vars

\* The same for the reports that follow a stop of a registered instance.
StoppedRegisteredMeansNoProcess ==
  [][(SendsStopped /\ Loop.did # <<>>) => ProcsOf(procs, Loop.cur) = {}]_vars

(***************************************************************************)
(* The poll loop with the Coordinator reachable: every request of the loop *)
(* gets through (webApi resolves, reportStatus is not swallowed), and the  *)
(* loop always takes its next step.                                        *)
(***************************************************************************)
ReportOf(pc) ==
  CASE pc = "rep_starting" -> "starting"
    [] pc = "rep_running"  -> "running"
    [] pc = "rep_error"    -> "error"
    [] pc = "rep_stopped"  -> "stopped"
    [] pc = "h_report"     -> "error"
    [] OTHER               -> ""

Through ==
  /\ Loop.pc = "heartbeat" => thread'.loop.pc = "pending"
  /\ Loop.pc = "pending" => thread'.loop.pc # "sleep"
  /\ Loop.pc = "stopq" =>
       thread'.loop = NextStop([Loop EXCEPT !.sent = <<>>, !.did = <<>>],
                               runningInstances, StopQueue(accounts))
  /\ ReportOf(Loop.pc) # "" => accounts' = SetStatus(accounts, Loop.cur, ReportOf(Loop.pc))

ReachableStep == LoopStep /\ Through

ReachableNext ==
  \/ ReachableStep
  \/ \E uid \in AccountIds : UserConnect(uid)
  \/ \E uid \in AccountIds : UserStart(uid)
  \/ \E uid \in Accounts : UserStop(uid)
  \/ \E uid \in Accounts : UserDelete(uid)
  \/ \E p \in procs : ProcExit(p)

SpecReachable == Init /\ [][ReachableNext]_vars /\ WF_vars(ReachableStep)

Waiting(uid) == accounts[uid] \in {"pending_vps", "starting"}

\* C35: with the agent running and the Coordinator reachable, an account
\* whose status is pending_vps or starting eventually has status running or
\* error (or the user has stopped or deleted it meanwhile), also when the
\* user restarted it while its instance is registered at the agent.  Only
\* the behaviours in which the user and the terminals come to rest and the
\* loop alone goes on are asked about.
C35_PendingProgresses ==
  <>[][ReachableStep]_vars => \A uid \in Accounts : Waiting(uid) ~> ~Waiting(uid)

\* The same for the accounts that are not registered at the agent while
\* they wait.
UnregisteredPendingProgresses ==
  <>[][ReachableStep]_vars =>
    \A uid \in Accounts :
      (Waiting(uid) /\ uid \notin DOMAIN runningInstances) ~> ~Waiting(uid)

(***************************************************************************)
(* POST /api/master/push, statement by statement.  Each await dbGet/dbRun  *)
(* of the handler returns to the event loop, which may run a statement of  *)
(* another request's handler before this one goes on; each statement is    *)
(* one step on the database (the handler opens no transaction).            *)
(***************************************************************************)

\* The payloads of the interleaved pushes: well-formed entries.
ConcPayloads ==
  {[trades |-> tr, closed |-> cl] :
     tr \in SeqsUpTo({TradeA(k) : k \in Tickets}, MaxTrades),
     cl \in SeqsUpTo({ClosedP(1)}, MaxClosed)}

ConcRequests ==
  {Request("ABC", "K1", p) : p \in ConcPayloads}
    \cup {Request("ABC", "K2", RejectedPayload)}

\* The handler has answered.
Answered(hd, status) == [hd EXCEPT !.pc = "done", !.status = status]

\* for (const t of closed): the i-th entry, or past the loop the diff delete
NextClosed(hd, i) ==
  IF i <= Len(hd.req.closed) THEN [hd EXCEPT !.pc = "closed_ins", !.i = i]
  ELSE [hd EXCEPT !.pc = "diff", !.i = 1]

\* for (const t of trades): the i-th entry, or past the loop the update of
\* channels.last_active
NextUpsert(hd, i) ==
  IF i <= Len(hd.req.trades) THEN [hd EXCEPT !.pc = "upsert", !.i = i]
  ELSE [hd EXCEPT !.pc = "touch", !.i = 1]

\* const ch = await dbGet('SELECT * FROM channels WHERE code=? AND
\* master_key=?'); if (!ch) return 403; const ts = now()
PushLookup(h, req) ==
  /\ pushes[h].pc = "idle"
  /\ \E hd \in {[pc |-> "lookup", req |-> req, ts |-> clock, i |-> 1, status |-> 0]} :
       pushes' = [pushes EXCEPT ![h] =
         IF PushChannel(channels, req) = {} THEN Answered(hd, 403)
         ELSE NextClosed(hd, 1)]
  /\ UNCHANGED <<clock, channels, trades, history, subs, last, firstClose,
                 mgrVars, agentVars, coordVars>>

\* await dbRun(`INSERT OR IGNORE INTO trade_history ...`)
PushClosedInsert(h) ==
  /\ pushes[h].pc = "closed_ins"
  /\ \E hd \in {pushes[h]} :
       /\ history' = InsertOrIgnoreHistory(history, hd.req.code, hd.req.closed[hd.i], hd.ts)
       /\ pushes' = [pushes EXCEPT ![h] = [hd EXCEPT !.pc = "closed_del"]]
  /\ UNCHANGED <<clock, channels, trades, subs, last, firstClose,
                 mgrVars, agentVars, coordVars>>

\* await dbRun('DELETE FROM trades WHERE channel=? AND ticket=?')
PushClosedDelete(h) ==
  /\ pushes[h].pc = "closed_del"
  /\ \E hd \in {pushes[h]} :
       /\ trades' = DeleteTrade(trades, hd.req.code, hd.req.closed[hd.i].ticket)
       /\ pushes' = [pushes EXCEPT ![h] = NextClosed(hd, hd.i + 1)]
  /\ UNCHANGED <<clock, channels, history, subs, last, firstClose,
                 mgrVars, agentVars, coordVars>>

\* await dbRun(`DELETE FROM trades WHERE channel=? AND ticket NOT IN (...)`)
\* or, for an empty snapshot, 'DELETE FROM trades WHERE channel=?'
PushDiffDelete(h) ==
  /\ pushes[h].pc = "diff"
  /\ \E hd \in {pushes[h]} :
       /\ trades' = DiffDelete(trades, hd.req.code, hd.req.trades)
       /\ pushes' = [pushes EXCEPT ![h] = NextUpsert(hd, 1)]
  /\ UNCHANGED <<clock, channels, history, subs, last, firstClose,
                 mgrVars, agentVars, coordVars>>

\* await dbRun(`INSERT INTO trades ... ON CONFLICT(channel,ticket) DO UPDATE
\* ...`); a failed INSERT goes to the catch block, which answers 500
PushUpsert(h) ==
  /\ pushes[h].pc = "upsert"
  /\ \E hd \in {pushes[h]} :
       IF TradeNotNull(hd.req.trades[hd.i])
       THEN /\ trades' = UpsertTrade(trades, hd.req.code, hd.req.trades[hd.i], hd.ts)
            /\ pushes' = [pushes EXCEPT ![h] = NextUpsert(hd, hd.i + 1)]
       ELSE /\ trades' = trades
            /\ pushes' = [pushes EXCEPT ![h] = Answered(hd, 500)]
  /\ UNCHANGED <<clock, channels, history, subs, last, firstClose,
                 mgrVars, agentVars, coordVars>>

\* await dbRun('UPDATE channels SET last_active=? WHERE code=?');
\* res.json({ ok: true, ts })
PushTouch(h) ==
  /\ pushes[h].pc = "touch"
  /\ \E hd \in {pushes[h]} :
       /\ channels' = TouchChannel(channels, hd.req.code, hd.ts)
       /\ pushes' = [pushes EXCEPT ![h] = Answered(hd, 200)]
  /\ UNCHANGED <<clock, trades, history, subs, last, firstClose,
                 mgrVars, agentVars, coordVars>>

ConcNext ==
  \/ \E h \in Handlers, req \in ConcRequests : PushLookup(h, req)
  \/ \E h \in Handlers : PushClosedInsert(h)
  \/ \E h \in Handlers : PushClosedDelete(h)
  \/ \E h \in Handlers : PushDiffDelete(h)
  \/ \E h \in Handlers : PushUpsert(h)
  \/ \E h \in Handlers : PushTouch(h)

SpecConc == Init /\ [][ConcNext]_vars

Completed(h) == pushes[h].pc = "done" /\ pushes[h].status = 200

\* C36: when two pushes for one channel whose statements interleaved have
\* both completed, the channel's open set is the snapshot of one of the two.
C36_OpenSetOfOnePush ==
  (\A h \in Handlers : Completed(h))
    => \E h \in Handlers : OpenTickets(trades, "ABC") = TicketsOf(pushes[h].req.trades)

\* A push that completed while no other request was handled leaves its
\* snapshot as the open set.
OpenSetOfPushAlone ==
  \A h \in Handlers :
    (Completed(h) /\ \A g \in Handlers \ {h} : pushes[g].pc = "idle")
      => OpenTickets(trades, "ABC") = TicketsOf(pushes[h].req.trades)

(***************************************************************************)
(* Open set and closed history of a channel.                               *)
(***************************************************************************)

\* The tickets that the rows of one channel code hold both in trades and in
\* trade_history.
OpenAndClosed(rows, h) ==
  {r.ticket : r \in {o \in rows : \E c \in h : c.channel = o.channel /\ c.ticket = o.ticket}}

\* C37: after a completed push no ticket of a channel is both in the
\* channel's open set and in its closed history, whatever the payload.
C37_OpenAndClosedDisjoint ==
  (last.op = "push" /\ last.status = 200) => OpenAndClosed(trades, history) = {}

\* The same for the pushes whose snapshot holds no ticket that the payload
\* or an earlier push reported as closed.
OpenAndClosedDisjointPlain ==
  \A req \in PushRequests :
    \E r \in {PushResult(Db, req, clock)} :
      ( /\ r.status = 200
        /\ OpenAndClosed(trades, history) = {}
        /\ TicketsOf(req.trades) \cap TicketsOf(req.closed) = {}
        /\ \A c \in history : c.channel = req.code => c.ticket \notin TicketsOf(req.trades) )
        => OpenAndClosed(r.db.trades, r.db.history) = {}

(***************************************************************************)
(* The spelling of the channel code.                                       *)
(***************************************************************************)

\* The open set GET /api/slave/trades/:code reads after the push req left
\* the rows: the rows under the upper-cased code.
PushedIsRead(req, rows) ==
  OpenTickets(rows, Upper(req.code)) = TicketsOf(req.trades)

\* The row the subscribe req created is the one the fetch gate reads (under
\* the upper-cased code) and the one the owner's PATCH finds joined to the
\* channel.
SubscribedIsRead(req, ss) ==
  /\ SubRows(ss, Upper(req.code), req.slave_id) # {}
  /\ PatchTarget(channels, ss, SubId(req.code, req.slave_id)) # {}

\* C38: a push or subscribe that is accepted, in whatever letter case it
\* spells the code, acts on the channel state that fetch reads: the pushed
\* open set is what a fetch of the channel reads, the created subscription
\* is the one the fetch gate and the owner's approve action look up.
C38_CodeCaseConsistent ==
  /\ \A req \in PushRequests :
       \E r \in {PushResult(Db, req, clock)} :
         r.status = 200 => PushedIsRead(req, r.db.trades)
  /\ \A req \in SubscribeRequests :
       \E r \in {SubscribeResult(channels, subs, req, clock)} :
         r.status = 200 => SubscribedIsRead(req, r.subs)

\* The same for the requests that spell the code as it is stored.
StoredCodeConsistent ==
  /\ \A req \in PushRequests :
       \E r \in {PushResult(Db, req, clock)} :
         (r.status = 200 /\ req.code \in DOMAIN channels)
           => PushedIsRead(req, r.db.trades)
  /\ \A req \in SubscribeRequests :
       \E r \in {SubscribeResult(channels, subs, req, clock)} :
         (r.status = 200 /\ req.code \in DOMAIN channels)
           => SubscribedIsRead(req, r.subs)

\* An accepted subscribe leaves a row under the upper-cased code.
SubscribeCaseConsistent ==
  \A req \in SubscribeRequests :
    \E r \in {SubscribeResult(channels, subs, req, clock)} :
      r.status = 200 => SubscribedIsRead(req, r.subs)

(***************************************************************************)
(* The approval gate across changes of the channel's require_sub flag.     *)
(***************************************************************************)

\* The subscription rows of the subscriber whose fetch was handled last.
FetchedRows == SubRows(subs, last.channel, last.slave_id)

\* The owner's approve action set the row's status: PATCH with action
\* approve is the only statement that writes a non-zero approved_at, and
\* reject and revoke write 0 again.
OwnerApproved(r) == r.status = "approved" /\ r.approved_at # 0

\* C39: a subscriber whose fetch succeeds on a channel that requires
\* approval holds a subscription the owner approved by an approve action,
\* and after a successful fetch on any channel the subscriber's subscription
\* is in state approved; also when the owner changed the require-approval
\* flag after the subscription was created.
C39_FetchNeedsOwnerApproval ==
  (last.op = "fetch" /\ last.status = 200)
    => /\ FetchedRows # {}
       /\ \A r \in FetchedRows : r.status = "approved"
       /\ last.require_sub # 0 => \A r \in FetchedRows : OwnerApproved(r)

\* After a successful fetch on a channel that requires approval the
\* subscriber's subscription is in state approved.
GatedFetchIsApproved ==
  (last.op = "fetch" /\ last.status = 200 /\ last.require_sub # 0)
    => (FetchedRows # {} /\ \A r \in FetchedRows : r.status = "approved")

\* The first half of C39 alone: a successful fetch on a channel that
\* requires approval is by a subscriber the owner approved.
GatedFetchOwnerApproved ==
  (last.op = "fetch" /\ last.status = 200 /\ last.require_sub # 0)
    => \A r \in FetchedRows : OwnerApproved(r)

(***************************************************************************)
(* healthCheck of the single server against launch and stop.               *)
(***************************************************************************)

\* The result of a probe arrives and healthCheck deletes the tenant's entry.
HealthRemoves ==
  /\ health.pc = "probed"
  /\ health' = HealthIdle
  /\ Has(runningInstances, health.uid)
  /\ ~Has(runningInstances', health.uid)

\* C40: when healthCheck removes a tenant's registry entry, the process of
\* the entry registered at that moment is dead; the late result of a probe
\* of an earlier process id does not deregister a relaunched, live instance.
C40_HealthRemovesOnlyDead ==
  [][HealthRemoves => runningInstances[health.uid] \notin Pids(procs)]_vars

\* healthCheck removes an entry only after its probe found the probed
\* process id dead.
HealthRemovesProbedDead ==
  [][HealthRemoves => (~health.alive /\ health.pid \notin Pids(procs))]_vars

====
